---- MODULE Spec2Model ----
(***************************************************************************)
(* friday-cli: the streaming session engine.                               *)
(*   - appReducer           src/src/context/AppContext.tsx                 *)
(*   - useStreamingSession  src/src/hooks/useStreamingSession.ts           *)
(*   - AgentCoreService     src/unnamed/part_004 (chatStream, chatInit)    *)
(*   - InputBox             src/src/components/InputBox.tsx (ESC)          *)
(* A string is the sequence of its pieces (characters, or a fixed text     *)
(* that is never split), so \o is JavaScript's + and << >> is ''.          *)
(***************************************************************************)
EXTENDS Integers, Sequences, FiniteSets, TLC

VARIABLES
    state,            \* AppState of useReducer(appReducer, initialState)
    activeStreamsRef, \* useStreamingSession: Map<string, AbortController> (its keys)
    aborted,          \* abortController.signal.aborted of each startStream call
    pc,               \* where each startStream call stands
    fullContent,      \* startStream's local fullContent
    result,           \* what each startStream call resolved to
    gen,              \* where each chatStream generator stands
    ctrlAborted,      \* chatStream's own controller.signal.aborted
    timeoutId,        \* chatStream's stream timeout timer is armed
    readerLocked,     \* chatStream holds the body reader's lock
    endedBy,          \* history: how each chatStream generator finished
    received,         \* history: text payloads startStream consumed, in order
    declared,         \* history: fullText of the complete event startStream consumed
    updates,          \* history: UPDATE_STREAMING_CONTENT dispatches per call
    stops,            \* history: STOP_STREAMING dispatches per call
    resetTimers,      \* pending setTimeout(..., 3000) callbacks of failed streams
    authenticated,    \* getAuthStatus(): a user with an access_token is stored
    initPc,           \* where each initializeChat call stands
    escapes,          \* ESC presses handled with streams active
    dispatched,       \* reducer alone: the action dispatched last
    buffer,           \* decoder: chatStream's buffer
    rest,             \* decoder: text the transport has still to deliver
    events,           \* decoder: events yielded so far
    dpc,              \* decoder: reading | returned | ended | failed
    input,            \* decoder: the whole text the transport carries
    straddled,        \* history: a read left part of a block in the buffer
    errorCounts,      \* StreamErrorHandler.errorCounts
    circuitBreakers,  \* StreamErrorHandler.circuitBreakers
    now,              \* Date.now(), in ms since the handler was built
    decision,         \* recovery: what handleStreamError returned last
    delayed,          \* recovery: what calculateDelay returned last
    appended,         \* transcript alone: the entries appended so far, in order
    effectDeps,       \* the dependencies the auto-initialize effect last ran with
    retry             \* withRetry: where the call stands, its attempt, what it raised

vars == << state, activeStreamsRef, aborted, pc, fullContent, result, gen,
           ctrlAborted, timeoutId, readerLocked, endedBy, received, declared,
           updates, stops, resetTimers, authenticated, initPc, escapes,
           dispatched, buffer, rest, events, dpc, input, straddled,
           errorCounts, circuitBreakers, now, decision, delayed, appended, retry,
           effectDeps >>

\* what the recovery policy uses
recoveryVars == << errorCounts, circuitBreakers, now, decision, delayed, retry >>

\* what the reducer-only and decoder-only specifications use
otherVars ==
    << dispatched, buffer, rest, events, dpc, input, straddled, recoveryVars, appended,
       effectDeps >>

(***************************************************************************)
(* Bounds of the model.                                                    *)
(***************************************************************************)
MaxCalls == 2      \* startStream and initializeChat calls of one run
MaxEvents == 2     \* text events with a payload that one stream delivers
MaxEscapes == 1    \* ESC presses with streams active

Chat == 1 .. MaxCalls
Inits == 1 .. MaxCalls

\* generateId() and `connection_${Date.now()}` / `error_${Date.now()}`:
\* distinct calls give distinct ids.
MsgId(i) == << "msg", i >>
ConnectionId(j) == << "connection", j >>
ErrorId(j) == << "error", j >>
NoteId == << "note", 0 >>

\* what a startStream call resolved to
None == << "none" >>
NoAction == [ type |-> "none" ]
Pending == << "pending" >>
Null == << "null" >>

\* undefined, as a value no string equals
Undefined == << "undefined" >>

\* text payloads of text events (parsed.data || parsed.content || parsed.text)
Texts == { << "a" >>, << "b" >>, Undefined }

\* fullText of complete events
FullTexts == { Undefined, << >>, << "a", "b" >> }

\* JavaScript's a || b on optional strings.
OrElse(a, b) == IF a = Undefined \/ a = << >> THEN b ELSE a

\* JavaScript's truthiness of an optional string.
Truthy(a) == a # Undefined /\ a # << >>

EndsWith(s, suffix) ==
    /\ Len(s) >= Len(suffix)
    /\ SubSeq(s, Len(s) - Len(suffix) + 1, Len(s)) = suffix

(***************************************************************************)
(* appReducer                                                              *)
(***************************************************************************)
HistoryLimit == 100

StoppedByUser == << " [Stopped by user]" >>

\* A ChatMessage; the streaming fields are placeholders on the other variants.
Message(id, type, streamingType, content, partialContent, canStop, isComplete) ==
    [ id |-> id, type |-> type, streamingType |-> streamingType,
      content |-> content, partialContent |-> partialContent,
      canStop |-> canStop, isComplete |-> isComplete ]

SimpleMessage(type, content) ==
    Message(NoteId, type, "none", content, << >>, FALSE, TRUE)

\* auth.token: null, or the n-th access token the store has held
NoToken == 0

initialState ==
    [ chatHistory |-> << >>,
      activeStreams |-> [ k \in {} |-> "response" ],
      connectionStatus |-> "disconnected",
      canStop |-> FALSE,
      isInitialized |-> FALSE,
      isAuthenticated |-> FALSE,
      token |-> NoToken ]

\* newHistory.slice(0, 100): the first entries kept
SliceLast_First(h, n) == IF Len(h) > n THEN SubSeq(h, 1, n) ELSE h

\* newHistory.slice(-100)
SliceLast(h, n) == IF Len(h) > n THEN SubSeq(h, Len(h) - n + 1, Len(h)) ELSE h

\* new Map(m) followed by delete(id) for each id of ids
MapDelete(m, ids) == [ k \in (DOMAIN m) \ ids |-> m[k] ]

\* new Map(m) followed by set(id, v)
MapSet(m, id, v) == [ k \in (DOMAIN m) \cup { id } |-> IF k = id THEN v ELSE m[k] ]

ADD_MESSAGE(st, message) ==
    [ st EXCEPT !.chatHistory = SliceLast(Append(st.chatHistory, message), HistoryLimit) ]

\* a registration that leaves the flag as it was
START_STREAMING_KeepsFlag(st, type, messageId) ==
    [ st EXCEPT !.activeStreams = MapSet(st.activeStreams, messageId, type) ]

START_STREAMING(st, type, messageId) ==
    [ st EXCEPT !.activeStreams = MapSet(st.activeStreams, messageId, type),
                !.canStop = TRUE ]

\* an update that appends what it is given to what the entry holds
UpdatedMessage_Concatenates(msg, messageId, partialContent) ==
    IF msg.id = messageId /\ msg.type = "streaming"
    THEN [ msg EXCEPT !.partialContent = msg.partialContent \o partialContent,
                      !.content = msg.partialContent \o partialContent ]
    ELSE msg

UpdatedMessage(msg, messageId, partialContent) ==
    IF msg.id = messageId /\ msg.type = "streaming"
    THEN [ msg EXCEPT !.partialContent = partialContent, !.content = partialContent ]
    ELSE msg

UPDATE_STREAMING_CONTENT(st, messageId, partialContent) ==
    [ st EXCEPT !.chatHistory =
        [ k \in 1 .. Len(st.chatHistory) |->
            UpdatedMessage(st.chatHistory[k], messageId, partialContent) ] ]

\* the entry completed with what it holds, whatever the final content given
CompletedMessage_KeepsPartial(msg, messageId, finalContent) ==
    IF msg.id = messageId /\ msg.type = "streaming"
    THEN [ msg EXCEPT !.content = msg.partialContent,
                      !.isComplete = TRUE,
                      !.canStop = FALSE ]
    ELSE msg

CompletedMessage(msg, messageId, finalContent) ==
    IF msg.id = messageId /\ msg.type = "streaming"
    THEN [ msg EXCEPT !.partialContent = OrElse(finalContent, msg.partialContent),
                      !.content = OrElse(finalContent, msg.partialContent),
                      !.isComplete = TRUE,
                      !.canStop = FALSE ]
    ELSE msg

COMPLETE_STREAMING(st, messageId, finalContent) ==
    LET newActiveStreams == MapDelete(st.activeStreams, { messageId })
    IN  [ st EXCEPT !.chatHistory =
              [ k \in 1 .. Len(st.chatHistory) |->
                  CompletedMessage(st.chatHistory[k], messageId, finalContent) ],
                    !.activeStreams = newActiveStreams,
                    !.canStop = (DOMAIN newActiveStreams # {}) ]

\* a stop that closes every streaming entry, whichever id it names
StoppedMessage_Every(msg, messageId) ==
    IF msg.type = "streaming"
    THEN [ msg EXCEPT !.isComplete = TRUE,
                      !.canStop = FALSE,
                      !.partialContent = msg.partialContent \o StoppedByUser,
                      !.content = msg.content \o StoppedByUser ]
    ELSE msg

StoppedMessage(msg, messageId) ==
    IF msg.id = messageId /\ msg.type = "streaming"
    THEN [ msg EXCEPT !.isComplete = TRUE,
                      !.canStop = FALSE,
                      !.partialContent = msg.partialContent \o StoppedByUser,
                      !.content = msg.content \o StoppedByUser ]
    ELSE msg

STOP_STREAMING(st, messageId) ==
    LET newActiveStreams == MapDelete(st.activeStreams, { messageId })
    IN  [ st EXCEPT !.chatHistory =
              [ k \in 1 .. Len(st.chatHistory) |->
                  StoppedMessage(st.chatHistory[k], messageId) ],
                    !.activeStreams = newActiveStreams,
                    !.canStop = (DOMAIN newActiveStreams # {}) ]

REMOVE_STREAMING_MESSAGES(st, messageIdsToRemove) ==
    LET newActiveStreams == MapDelete(st.activeStreams, messageIdsToRemove)
    IN  [ st EXCEPT !.chatHistory =
              SelectSeq(st.chatHistory,
                        LAMBDA msg : ~(msg.type = "streaming" /\ msg.id \in messageIdsToRemove)),
                    !.activeStreams = newActiveStreams,
                    !.canStop = (DOMAIN newActiveStreams # {}) ]

SET_CONNECTION_STATUS(st, status) == [ st EXCEPT !.connectionStatus = status ]

INITIALIZE_CHAT_COMPLETE(st, flag) == [ st EXCEPT !.isInitialized = flag ]

(***************************************************************************)
(* useStreamingSession and AgentCoreService.chatStream                     *)
(*                                                                         *)
(* A chatStream generator runs only while startStream pulls it, so one     *)
(* action is one resumption of the generator together with what the        *)
(* for await loop does with what it gets: gen is "fetching" while the      *)
(* generator awaits fetch(), "reading" while it holds the reader (between  *)
(* two reads, or with blocks of the last chunk still to go through),       *)
(* "closed" when it has finished.                                          *)
(***************************************************************************)
Modes == { "text", "voice", "thinking" }

StreamingType(mode) == IF mode = "thinking" THEN "thinking" ELSE "response"

streamingMessage(i, mode) ==
    Message(MsgId(i), "streaming", StreamingType(mode), << >>, << >>, TRUE, FALSE)

LoginNotice == << "Please login first using /login to send messages" >>
ModeNotice == << "mode streaming not yet implemented. Please switch to text or thinking mode." >>
ChatError(message) == << "Chat error: " >> \o message \o << ". Please try again." >>
StreamErrorMessage == << "Stream error occurred" >>
TransportErrorMessage == << "fetch failed" >>
HttpErrorMessage == << "HTTP 500: Internal Server Error" >>
InterruptedByUser == << "Interrupted by user" >>

\* the loop without its check of the signal
SignalAborted_Unchecked(i) == FALSE

\* line 89: if (abortController.signal.aborted) break;
SignalAborted(i) == aborted[i]

\* lines 20 and 31: the two refusals of startStream
Refused(mode) == ~authenticated \/ mode \notin { "text", "thinking" }

RefusalNotice(mode) == IF ~authenticated THEN LoginNotice ELSE ModeNotice

\* calls made so far
Started ==
    Cardinality({ i \in Chat : pc[i] # "idle" })
        + Cardinality({ j \in Inits : initPc[j] # "idle" })

\* the refusal with the connection marked as failed
StartStreamRefused_SetsStatus(i, mode) ==
    /\ Refused(mode)
    /\ Started < MaxCalls
    /\ pc[i] = "idle"
    /\ \A k \in Chat : k < i => pc[k] # "idle"
    /\ state' = SET_CONNECTION_STATUS(
                    ADD_MESSAGE(state, SimpleMessage("system", RefusalNotice(mode))),
                    "error")
    /\ pc' = [ pc EXCEPT ![i] = "done" ]
    /\ result' = [ result EXCEPT ![i] = Null ]
    /\ UNCHANGED << activeStreamsRef, aborted, fullContent, gen,
                    ctrlAborted, timeoutId, readerLocked, endedBy, received, declared,
                    updates, stops, resetTimers, authenticated,
                    initPc, escapes >>
    /\ UNCHANGED otherVars

\* lines 16-39
StartStreamRefused(i, mode) ==
    /\ Refused(mode)
    /\ Started < MaxCalls
    /\ pc[i] = "idle"
    /\ \A k \in Chat : k < i => pc[k] # "idle"
    /\ state' = ADD_MESSAGE(state, SimpleMessage("system", RefusalNotice(mode)))
    /\ pc' = [ pc EXCEPT ![i] = "done" ]
    /\ result' = [ result EXCEPT ![i] = Null ]
    /\ UNCHANGED << activeStreamsRef, aborted, fullContent, gen,
                    ctrlAborted, timeoutId, readerLocked, endedBy, received, declared,
                    updates, stops, resetTimers, authenticated,
                    initPc, escapes >>
    /\ UNCHANGED otherVars

\* lines 41-87, and chatStream up to its await fetch(...) (part_004 279-327)
StartStream(i, mode) ==
    /\ ~Refused(mode)
    /\ Started < MaxCalls
    /\ pc[i] = "idle"
    /\ \A k \in Chat : k < i => pc[k] # "idle"
    /\ state' = SET_CONNECTION_STATUS(
                    START_STREAMING(ADD_MESSAGE(state, streamingMessage(i, mode)),
                                    StreamingType(mode), MsgId(i)),
                    "streaming")
    /\ activeStreamsRef' = activeStreamsRef \cup { MsgId(i) }
    /\ pc' = [ pc EXCEPT ![i] = "streaming" ]
    /\ gen' = [ gen EXCEPT ![i] = "fetching" ]
    /\ timeoutId' = [ timeoutId EXCEPT ![i] = TRUE ]
    /\ UNCHANGED << aborted, fullContent, result, ctrlAborted, readerLocked,
                    endedBy, received, declared, updates, stops, resetTimers,
                    authenticated, initPc, escapes >>
    /\ UNCHANGED otherVars

\* the aborted branch without its setConnectionStatus('connected')
AfterLoop_NoStatus(st, i, content) ==
    IF ~aborted[i]
    THEN COMPLETE_STREAMING(st, MsgId(i), content)
    ELSE STOP_STREAMING(st, MsgId(i))

\* the aborted branch reporting the stop as a failure of the stream
AfterLoop_ReportsError(st, i, content) ==
    IF ~aborted[i]
    THEN COMPLETE_STREAMING(st, MsgId(i), content)
    ELSE SET_CONNECTION_STATUS(
             ADD_MESSAGE(STOP_STREAMING(st, MsgId(i)),
                         SimpleMessage("system", ChatError(<< "The operation was aborted" >>))),
             "error")

\* lines 104-117: what startStream does once the loop is left without a throw
AfterLoop(st, i, content) ==
    IF ~aborted[i]
    THEN COMPLETE_STREAMING(st, MsgId(i), content)
    ELSE SET_CONNECTION_STATUS(STOP_STREAMING(st, MsgId(i)), "connected")

LeaveLoop(i, content) ==
    /\ activeStreamsRef' = activeStreamsRef \ { MsgId(i) }
    /\ state' = AfterLoop(state, i, content)
    /\ pc' = [ pc EXCEPT ![i] = IF ~aborted[i] THEN "completing" ELSE "done" ]
    /\ result' = [ result EXCEPT ![i] = IF ~aborted[i] THEN Pending ELSE Null ]
    /\ stops' = [ stops EXCEPT ![i] = IF ~aborted[i] THEN @ ELSE @ + 1 ]
    /\ UNCHANGED resetTimers

\* lines 118-140: the catch block of startStream
CatchError(st, message) ==
    SET_CONNECTION_STATUS(ADD_MESSAGE(st, SimpleMessage("system", ChatError(message))),
                          "error")

Catch(i, message) ==
    /\ activeStreamsRef' = activeStreamsRef \ { MsgId(i) }
    /\ state' = CatchError(state, message)
    /\ resetTimers' = resetTimers + 1
    /\ pc' = [ pc EXCEPT ![i] = "done" ]
    /\ result' = [ result EXCEPT ![i] = Null ]
    /\ UNCHANGED stops

\* part_004 456-461: the finally of the read loop
Finally(i, how) ==
    /\ gen' = [ gen EXCEPT ![i] = "closed" ]
    /\ readerLocked' = [ readerLocked EXCEPT ![i] = FALSE ]
    /\ timeoutId' = [ timeoutId EXCEPT ![i] = FALSE ]
    /\ endedBy' = [ endedBy EXCEPT ![i] = how ]

\* part_004 312-345: fetch resolves with a 2xx response that has a body
FetchResponds(i) ==
    /\ gen[i] = "fetching"
    /\ ~ctrlAborted[i]
    /\ gen' = [ gen EXCEPT ![i] = "reading" ]
    /\ readerLocked' = [ readerLocked EXCEPT ![i] = TRUE ]
    /\ UNCHANGED << state, activeStreamsRef, aborted, pc, fullContent, result,
                    ctrlAborted, timeoutId, endedBy, received, declared, updates,
                    stops, resetTimers, authenticated, initPc, escapes >>
    /\ UNCHANGED otherVars

\* part_004 312-341 and 462-476: fetch rejects, the response is not ok, or it
\* has no body; the failure passes the outer catch and reaches startStream's
FetchFails(i, message) ==
    /\ gen[i] = "fetching"
    /\ ~ctrlAborted[i]
    /\ gen' = [ gen EXCEPT ![i] = "closed" ]
    /\ endedBy' = [ endedBy EXCEPT ![i] = "failure" ]
    /\ Catch(i, message)
    /\ UNCHANGED << aborted, fullContent, ctrlAborted, timeoutId, readerLocked,
                    received, declared, updates, authenticated, initPc,
                    escapes >>
    /\ UNCHANGED otherVars

\* part_004 462-472: the pending fetch rejects with an AbortError, which the
\* outer catch turns into a plain return
FetchAborted(i) ==
    /\ gen[i] = "fetching"
    /\ ctrlAborted[i]
    /\ gen' = [ gen EXCEPT ![i] = "closed" ]
    /\ endedBy' = [ endedBy EXCEPT ![i] = "abort" ]
    /\ LeaveLoop(i, fullContent[i])
    /\ UNCHANGED << aborted, fullContent, ctrlAborted, timeoutId, readerLocked,
                    received, declared, updates, authenticated, initPc,
                    escapes >>
    /\ UNCHANGED otherVars

\* part_004 349 and 456-472: the pending read rejects with an AbortError
ReadAborted(i) ==
    /\ gen[i] = "reading"
    /\ ctrlAborted[i]
    /\ Finally(i, "abort")
    /\ LeaveLoop(i, fullContent[i])
    /\ UNCHANGED << aborted, fullContent, ctrlAborted, received, declared, updates, authenticated, initPc, escapes >>
    /\ UNCHANGED otherVars

\* part_004 349, 456-461 and 474-475: the pending read rejects with another failure
ReadFails(i, message) ==
    /\ gen[i] = "reading"
    /\ ~ctrlAborted[i]
    /\ Finally(i, "failure")
    /\ Catch(i, message)
    /\ UNCHANGED << aborted, fullContent, ctrlAborted, received, declared, updates, authenticated, initPc, escapes >>
    /\ UNCHANGED otherVars

\* part_004 350-355 (end of the body) and 412-417 ([DONE])
StreamEnds(i) ==
    /\ gen[i] = "reading"
    /\ ~ctrlAborted[i]
    /\ Finally(i, "end")
    /\ LeaveLoop(i, fullContent[i])
    /\ UNCHANGED << aborted, fullContent, ctrlAborted, received, declared, updates, authenticated, initPc, escapes >>
    /\ UNCHANGED otherVars

\* the loop is left by break: for await returns the generator, whose finally runs
Break(i, content, what) ==
    /\ Finally(i, what)
    /\ LeaveLoop(i, content)

\* part_004 423-428 yields a text event; lines 89-95 consume it
YieldText(i, text) ==
    /\ gen[i] = "reading"
    /\ Len(received[i]) < MaxEvents
    /\ IF SignalAborted(i)
       THEN /\ Break(i, fullContent[i], "text dropped")
            /\ UNCHANGED << fullContent, received, updates >>
       ELSE /\ IF Truthy(text)
               THEN /\ fullContent' = [ fullContent EXCEPT ![i] = @ \o text ]
                    /\ received' = [ received EXCEPT ![i] = Append(@, text) ]
                    /\ updates' = [ updates EXCEPT ![i] = @ + 1 ]
                    /\ state' = UPDATE_STREAMING_CONTENT(state, MsgId(i),
                                                         fullContent[i] \o text)
               ELSE UNCHANGED << fullContent, received, updates, state >>
            /\ UNCHANGED << activeStreamsRef, pc, result, stops, resetTimers,
                            gen, readerLocked, timeoutId, endedBy >>
    /\ UNCHANGED << aborted, ctrlAborted, declared, authenticated, initPc, escapes >>
    /\ UNCHANGED otherVars

\* part_004 429-434 yields a status event; lines 89-101 consume it
YieldStatus(i) ==
    /\ gen[i] = "reading"
    /\ IF SignalAborted(i)
       THEN Break(i, fullContent[i], "status dropped")
       ELSE UNCHANGED << state, activeStreamsRef, pc, result, stops, resetTimers,
                         gen, readerLocked, timeoutId, endedBy >>
    /\ UNCHANGED << aborted, fullContent, ctrlAborted, received, declared, updates,
                    authenticated, initPc, escapes >>
    /\ UNCHANGED otherVars

\* part_004 435-445 yields a complete event; lines 89-98 consume it
YieldComplete(i, fullText) ==
    /\ gen[i] = "reading"
    /\ LET content == IF SignalAborted(i) THEN fullContent[i]
                      ELSE OrElse(fullText, fullContent[i])
       IN  /\ fullContent' = [ fullContent EXCEPT ![i] = content ]
           /\ Finally(i, IF SignalAborted(i) THEN "complete dropped" ELSE "complete")
           /\ LeaveLoop(i, content)
    /\ declared' = [ declared EXCEPT ![i] = IF SignalAborted(i) THEN @ ELSE fullText ]
    /\ UNCHANGED << aborted, ctrlAborted, received, updates,
                    authenticated, initPc, escapes >>
    /\ UNCHANGED otherVars

\* part_004 393-399 yields an error event; lines 89-100 consume it
YieldError(i, message) ==
    /\ gen[i] = "reading"
    /\ IF SignalAborted(i)
       THEN Break(i, fullContent[i], "error dropped")
       ELSE /\ Finally(i, "error")
            /\ Catch(i, OrElse(message, StreamErrorMessage))
    /\ UNCHANGED << aborted, fullContent, ctrlAborted, received, declared, updates, authenticated, initPc, escapes >>
    /\ UNCHANGED otherVars

\* lines 109-111: after the await of completeStreaming
CompleteReturns(i) ==
    /\ pc[i] = "completing"
    /\ state' = SET_CONNECTION_STATUS(state, "connected")
    /\ pc' = [ pc EXCEPT ![i] = "done" ]
    /\ result' = [ result EXCEPT ![i] = MsgId(i) ]
    /\ UNCHANGED << activeStreamsRef, aborted, fullContent, gen, ctrlAborted,
                    timeoutId, readerLocked, endedBy, received, declared, updates,
                    stops, resetTimers, authenticated, initPc, escapes >>
    /\ UNCHANGED otherVars

\* part_004 298-301: the stream timeout timer fires
TimeoutFires(i) ==
    /\ timeoutId[i]
    /\ timeoutId' = [ timeoutId EXCEPT ![i] = FALSE ]
    /\ ctrlAborted' = [ ctrlAborted EXCEPT ![i] = TRUE ]
    /\ UNCHANGED << state, activeStreamsRef, aborted, pc, fullContent, result,
                    gen, readerLocked, endedBy, received, declared, updates,
                    stops, resetTimers, authenticated, initPc, escapes >>
    /\ UNCHANGED otherVars

\* lines 135-137: the delayed reset after a failed stream
ResetTimerFires ==
    /\ resetTimers > 0
    /\ resetTimers' = resetTimers - 1
    /\ state' = SET_CONNECTION_STATUS(state, "connected")
    /\ UNCHANGED << activeStreamsRef, aborted, pc, fullContent, result, gen,
                    ctrlAborted, timeoutId, readerLocked, endedBy, received, declared,
                    updates, stops, authenticated, initPc,
                    escapes >>
    /\ UNCHANGED otherVars

\* AbortController.abort() of one startStream call; chatStream's listener
\* (part_004 292-295) aborts its own controller in the same turn
Abort(ab, ids) == [ i \in Chat |-> ab[i] \/ MsgId(i) \in ids ]

\* lines 145-157
StopStream(i) ==
    /\ MsgId(i) \in activeStreamsRef
    /\ aborted' = Abort(aborted, { MsgId(i) })
    /\ ctrlAborted' = Abort(ctrlAborted, { MsgId(i) })
    /\ activeStreamsRef' = activeStreamsRef \ { MsgId(i) }
    /\ state' = SET_CONNECTION_STATUS(STOP_STREAMING(state, MsgId(i)), "connected")
    /\ stops' = [ stops EXCEPT ![i] = @ + 1 ]
    /\ UNCHANGED << pc, fullContent, result, gen, timeoutId, readerLocked,
                    endedBy, received, declared, updates, resetTimers,
                    authenticated, initPc, escapes >>
    /\ UNCHANGED otherVars

\* STOP_STREAMING for every id of ids (one dispatch per id)
RECURSIVE StopEach(_, _)
StopEach(st, ids) ==
    IF ids = {} THEN st
    ELSE LET id == CHOOSE x \in ids : TRUE
         IN  StopEach(STOP_STREAMING(st, id), ids \ { id })

\* lines 159-170
StopAllStreams ==
    /\ aborted' = Abort(aborted, activeStreamsRef)
    /\ ctrlAborted' = Abort(ctrlAborted, activeStreamsRef)
    /\ state' = SET_CONNECTION_STATUS(StopEach(state, activeStreamsRef), "connected")
    /\ stops' = [ i \in Chat |-> IF MsgId(i) \in activeStreamsRef
                                 THEN stops[i] + 1 ELSE stops[i] ]
    /\ activeStreamsRef' = {}
    /\ UNCHANGED << pc, fullContent, result, gen, timeoutId, readerLocked,
                    endedBy, received, declared, updates, resetTimers,
                    authenticated, initPc, escapes >>
    /\ UNCHANGED otherVars

\* InputBox.tsx 363-391: ESC outside command and file mode
HandleEscape(st, activeStreamIds) ==
    IF activeStreamIds # {}
    THEN ADD_MESSAGE(REMOVE_STREAMING_MESSAGES(st, activeStreamIds),
                     SimpleMessage("action", InterruptedByUser))
    ELSE st

Escape ==
    /\ activeStreamsRef # {}
    /\ escapes < MaxEscapes
    /\ escapes' = escapes + 1
    /\ state' = HandleEscape(state, activeStreamsRef)
    /\ UNCHANGED << activeStreamsRef, aborted, pc, fullContent, result, gen,
                    ctrlAborted, timeoutId, readerLocked, endedBy, received, declared,
                    updates, stops, resetTimers, authenticated,
                    initPc >>
    /\ UNCHANGED otherVars

(***************************************************************************)
(* initializeChat (AppContext.tsx 518-607) and chatInit (part_004 231-271) *)
(***************************************************************************)
Connecting == << "Connecting to AgentCore..." >>
ServerReachable == << "Server reachable, establishing session..." >>
HealthFailed == << "Server health check failed, attempting connection anyway..." >>
ConnectedStatus == << "Connected to AgentCore successfully" >>
FailedStatus == << "Failed to connect to AgentCore" >>
FailedToConnect(message) == << "Failed to connect to AgentCore: " >> \o message

connectionMessage(j) ==
    Message(ConnectionId(j), "streaming", "connection", << >>, Connecting, FALSE, FALSE)

errorMessage(j, message) ==
    Message(ErrorId(j), "streaming", "connection", FailedToConnect(message),
            FailedToConnect(message), FALSE, TRUE)

\* lines 519-546, and chatInit up to its await of healthCheck
InitializeChat(j) ==
    /\ Started < MaxCalls
    /\ initPc[j] = "idle"
    /\ \A k \in Inits : k < j => initPc[k] # "idle"
    /\ ~state.isInitialized
    /\ state.isAuthenticated
    /\ state' = UPDATE_STREAMING_CONTENT(
                    SET_CONNECTION_STATUS(
                        START_STREAMING(ADD_MESSAGE(state, connectionMessage(j)),
                                        "connection", ConnectionId(j)),
                        "connecting"),
                    ConnectionId(j), Connecting)
    /\ initPc' = [ initPc EXCEPT ![j] = "health" ]
    /\ UNCHANGED << activeStreamsRef, aborted, pc, fullContent, result, gen,
                    ctrlAborted, timeoutId, readerLocked, endedBy, received, declared,
                    updates, stops, resetTimers, authenticated,
                    escapes >>
    /\ UNCHANGED otherVars

\* part_004 241-259: the health probe settles either way, then /chat/init is fetched
HealthSettles(j, ok) ==
    /\ initPc[j] = "health"
    /\ state' = UPDATE_STREAMING_CONTENT(state, ConnectionId(j),
                                         IF ok THEN ServerReachable ELSE HealthFailed)
    /\ initPc' = [ initPc EXCEPT ![j] = "init" ]
    /\ UNCHANGED << activeStreamsRef, aborted, pc, fullContent, result, gen,
                    ctrlAborted, timeoutId, readerLocked, endedBy, received, declared,
                    updates, stops, resetTimers, authenticated,
                    escapes >>
    /\ UNCHANGED otherVars

\* part_004 261-265 and AppContext.tsx 561-579
InitSucceeded(st, j) ==
    INITIALIZE_CHAT_COMPLETE(
        SET_CONNECTION_STATUS(
            SET_CONNECTION_STATUS(
                COMPLETE_STREAMING(
                    UPDATE_STREAMING_CONTENT(st, ConnectionId(j), ConnectedStatus),
                    ConnectionId(j), ConnectedStatus),
                "connected"),
            "connected"),
        TRUE)

InitSucceeds(j) ==
    /\ initPc[j] = "init"
    /\ state' = InitSucceeded(state, j)
    /\ initPc' = [ initPc EXCEPT ![j] = "done" ]
    /\ UNCHANGED << activeStreamsRef, aborted, pc, fullContent, result, gen,
                    ctrlAborted, timeoutId, readerLocked, endedBy, received, declared,
                    updates, stops, resetTimers, authenticated,
                    escapes >>
    /\ UNCHANGED otherVars

\* part_004 266-270 and AppContext.tsx 580-597
\* a failure that only rewrites the connection entry
InitFailed_Silent(st, j, message) ==
    UPDATE_STREAMING_CONTENT(st, ConnectionId(j), FailedStatus)

InitFailed(st, j, message) ==
    ADD_MESSAGE(
        SET_CONNECTION_STATUS(
            UPDATE_STREAMING_CONTENT(st, ConnectionId(j), FailedStatus),
            "error"),
        errorMessage(j, message))

InitFails(j, message) ==
    /\ initPc[j] = "init"
    /\ state' = InitFailed(state, j, message)
    /\ initPc' = [ initPc EXCEPT ![j] = "failed" ]
    /\ UNCHANGED << activeStreamsRef, aborted, pc, fullContent, result, gen,
                    ctrlAborted, timeoutId, readerLocked, endedBy, received, declared,
                    updates, stops, resetTimers, authenticated,
                    escapes >>
    /\ UNCHANGED otherVars

(***************************************************************************)
(* The application: the reducer, the session manager and the streams.      *)
(***************************************************************************)
\* new StreamErrorHandler(): nothing has failed, nothing was decided
NoDecision == [ action |-> "none" ]
RetryIdle ==
    [ pc |-> "idle", streamId |-> "none", attempt |-> 0, calls |-> 0,
      failed |-> "none", raised |-> "none" ]
\* retryAfter?: number, undefined or a number of ms
NoRetryAfter == [ present |-> FALSE, ms |-> 0 ]
RetryAfter(ms) == [ present |-> TRUE, ms |-> ms ]
NoDelay == [ delay |-> 0, attempt |-> 0, random |-> 0, retryAfter |-> NoRetryAfter ]

\* the auto-initialize effect has not run yet
NotRun == [ ran |-> FALSE, isAuthenticated |-> FALSE, token |-> NoToken,
            isInitialized |-> FALSE ]

RecoveryIdle ==
    /\ errorCounts = [ k \in {} |-> 0 ]
    /\ circuitBreakers = [ k \in {} |-> 0 ]
    /\ now = 0
    /\ decision = NoDecision
    /\ delayed = NoDelay
    /\ retry = RetryIdle

DecoderIdle ==
    /\ dispatched = NoAction
    /\ buffer = << >>
    /\ rest = << >>
    /\ events = << >>
    /\ dpc = "idle"
    /\ input = << >>
    /\ straddled = FALSE
    /\ RecoveryIdle
    /\ appended = << >>
    /\ effectDeps = NotRun

\* no startStream and no initializeChat call made yet
SessionIdle ==
    /\ state = [ initialState EXCEPT !.isAuthenticated = authenticated,
                                     !.token = IF authenticated THEN 1 ELSE NoToken ]
    /\ activeStreamsRef = {}
    /\ aborted = [ i \in Chat |-> FALSE ]
    /\ pc = [ i \in Chat |-> "idle" ]
    /\ fullContent = [ i \in Chat |-> << >> ]
    /\ result = [ i \in Chat |-> Pending ]
    /\ gen = [ i \in Chat |-> "none" ]
    /\ ctrlAborted = [ i \in Chat |-> FALSE ]
    /\ timeoutId = [ i \in Chat |-> FALSE ]
    /\ readerLocked = [ i \in Chat |-> FALSE ]
    /\ endedBy = [ i \in Chat |-> "none" ]
    /\ received = [ i \in Chat |-> << >> ]
    /\ declared = [ i \in Chat |-> None ]
    /\ updates = [ i \in Chat |-> 0 ]
    /\ stops = [ i \in Chat |-> 0 ]
    /\ resetTimers = 0
    /\ initPc = [ j \in Inits |-> "idle" ]
    /\ escapes = 0

Init ==
    /\ authenticated \in BOOLEAN
    /\ SessionIdle
    /\ DecoderIdle

Next ==
    \/ \E i \in Chat, mode \in Modes : StartStreamRefused(i, mode)
    \/ \E i \in Chat, mode \in Modes : StartStream(i, mode)
    \/ \E i \in Chat : FetchResponds(i)
    \/ \E i \in Chat : FetchFails(i, HttpErrorMessage)
    \/ \E i \in Chat : FetchAborted(i)
    \/ \E i \in Chat : ReadAborted(i)
    \/ \E i \in Chat : ReadFails(i, TransportErrorMessage)
    \/ \E i \in Chat : StreamEnds(i)
    \/ \E i \in Chat, text \in Texts : YieldText(i, text)
    \/ \E i \in Chat : YieldStatus(i)
    \/ \E i \in Chat, fullText \in FullTexts : YieldComplete(i, fullText)
    \/ \E i \in Chat : YieldError(i, << "boom" >>)
    \/ \E i \in Chat : CompleteReturns(i)
    \/ \E i \in Chat : TimeoutFires(i)
    \/ ResetTimerFires
    \/ \E i \in Chat : StopStream(i)
    \/ StopAllStreams
    \/ Escape
    \/ \E j \in Inits : InitializeChat(j)
    \/ \E j \in Inits, ok \in BOOLEAN : HealthSettles(j, ok)
    \/ \E j \in Inits : InitSucceeds(j)
    \/ \E j \in Inits : InitFails(j, HttpErrorMessage)

Spec == Init /\ [][Next]_vars

\* the steps that end the stream of call i: the transport delivers a terminal
\* event, or fails, or is aborted, and startStream leaves its loop
Ends(i) ==
    \/ FetchFails(i, HttpErrorMessage)
    \/ FetchAborted(i)
    \/ FetchResponds(i)
    \/ ReadAborted(i)
    \/ ReadFails(i, TransportErrorMessage)
    \/ StreamEnds(i)
    \/ \E fullText \in FullTexts : YieldComplete(i, fullText)
    \/ YieldError(i, << "boom" >>)

\* the session manager with a transport that ends every stream and an event
\* loop that runs every continuation and every timer
FairSpec ==
    /\ Spec
    /\ \A i \in Chat : WF_vars(Ends(i))
    /\ \A i \in Chat : WF_vars(CompleteReturns(i))
    /\ \A i \in Chat : WF_vars(TimeoutFires(i))

(***************************************************************************)
(* Connection initialisation as the provider drives it: the auto-initialize*)
(* effect (AppContext.tsx 675-689) is the caller of initializeChat, and it *)
(* runs again when one of its dependencies has changed.                    *)
(***************************************************************************)
MaxTokens == 2     \* access tokens the store holds in turn
Tokens == 1 .. MaxTokens

SET_AUTH_SUCCESS(st, token) == [ st EXCEPT !.isAuthenticated = TRUE, !.token = token ]

CLEAR_AUTH(st) == [ st EXCEPT !.isAuthenticated = FALSE, !.token = NoToken ]

\* the dependency list of the effect; initializeChat changes with the same
\* three values, the other callbacks it closes over never change
Deps(st) ==
    [ ran |-> TRUE, isAuthenticated |-> st.isAuthenticated, token |-> st.token,
      isInitialized |-> st.isInitialized ]

\* the test of the effect, which is the test initializeChat starts with
ShouldInitialize(st) == st.isAuthenticated /\ st.token # NoToken /\ ~st.isInitialized

\* the effect runs and calls initializeChat, up to chatInit's await of healthCheck
AutoInitialize(j) ==
    /\ Started < MaxCalls
    /\ Deps(state) # effectDeps
    /\ ShouldInitialize(state)
    /\ initPc[j] = "idle"
    /\ \A k \in Inits : k < j => initPc[k] # "idle"
    /\ state' = UPDATE_STREAMING_CONTENT(
                    SET_CONNECTION_STATUS(
                        START_STREAMING(ADD_MESSAGE(state, connectionMessage(j)),
                                        "connection", ConnectionId(j)),
                        "connecting"),
                    ConnectionId(j), Connecting)
    /\ initPc' = [ initPc EXCEPT ![j] = "health" ]
    /\ effectDeps' = Deps(state)
    /\ UNCHANGED << activeStreamsRef, aborted, pc, fullContent, result, gen,
                    ctrlAborted, timeoutId, readerLocked, endedBy, received, declared,
                    updates, stops, resetTimers, authenticated, escapes,
                    dispatched, buffer, rest, events, dpc, input, straddled,
                    recoveryVars, appended >>

\* the effect runs and its test fails
AutoSkips ==
    /\ Deps(state) # effectDeps
    /\ ~ShouldInitialize(state)
    /\ effectDeps' = Deps(state)
    /\ UNCHANGED << state, activeStreamsRef, aborted, pc, fullContent, result, gen,
                    ctrlAborted, timeoutId, readerLocked, endedBy, received, declared,
                    updates, stops, resetTimers, authenticated, initPc, escapes,
                    dispatched, buffer, rest, events, dpc, input, straddled,
                    recoveryVars, appended >>

\* a login stores a token and reports it (useCommandProcessor.ts 105)
SetAuthSuccess(token) ==
    /\ authenticated' = TRUE
    /\ state' = SET_AUTH_SUCCESS(state, token)
    /\ UNCHANGED << activeStreamsRef, aborted, pc, fullContent, result, gen,
                    ctrlAborted, timeoutId, readerLocked, endedBy, received, declared,
                    updates, stops, resetTimers, initPc, escapes >>
    /\ UNCHANGED otherVars

\* a logout clears the store and reports it (useCommandProcessor.ts 165)
ClearAuth ==
    /\ authenticated' = FALSE
    /\ state' = CLEAR_AUTH(state)
    /\ UNCHANGED << activeStreamsRef, aborted, pc, fullContent, result, gen,
                    ctrlAborted, timeoutId, readerLocked, endedBy, received, declared,
                    updates, stops, resetTimers, initPc, escapes >>
    /\ UNCHANGED otherVars

InitProvider ==
    /\ authenticated \in BOOLEAN
    /\ SessionIdle
    /\ DecoderIdle

NextProvider ==
    \/ \E j \in Inits : AutoInitialize(j)
    \/ AutoSkips
    \/ \E token \in Tokens : SetAuthSuccess(token)
    \/ ClearAuth
    \/ \E j \in Inits, ok \in BOOLEAN : HealthSettles(j, ok)
    \/ \E j \in Inits : InitSucceeds(j)
    \/ \E j \in Inits : InitFails(j, HttpErrorMessage)

ProviderSpec == InitProvider /\ [][NextProvider]_vars

(***************************************************************************)
(* The reducer alone: appReducer applied to any action a component may     *)
(* dispatch through the context's actions, in any order.                   *)
(***************************************************************************)
MaxHistory == 2    \* entries of the transcript
MaxContent == 3    \* pieces of an entry's content

ConnectionStatuses ==
    { "connecting", "connected", "streaming", "stopped", "error", "disconnected" }

appReducer(st, action) ==
    CASE action.type = "ADD_MESSAGE" -> ADD_MESSAGE(st, action.message)
      [] action.type = "START_STREAMING" ->
            START_STREAMING(st, action.streamingType, action.messageId)
      [] action.type = "UPDATE_STREAMING_CONTENT" ->
            UPDATE_STREAMING_CONTENT(st, action.messageId, action.partialContent)
      [] action.type = "COMPLETE_STREAMING" ->
            COMPLETE_STREAMING(st, action.messageId, action.finalContent)
      [] action.type = "STOP_STREAMING" -> STOP_STREAMING(st, action.messageId)
      [] action.type = "REMOVE_STREAMING_MESSAGES" ->
            REMOVE_STREAMING_MESSAGES(st, action.messageIds)
      [] action.type = "SET_CONNECTION_STATUS" -> SET_CONNECTION_STATUS(st, action.status)
      [] action.type = "INITIALIZE_CHAT_COMPLETE" ->
            INITIALIZE_CHAT_COMPLETE(st, action.isInitialized)
      [] OTHER -> st

\* the transcript stays within the bounds of the model
Bounded(st) ==
    /\ Len(st.chatHistory) <= MaxHistory
    /\ \A k \in 1 .. Len(st.chatHistory) :
          /\ Len(st.chatHistory[k].content) <= MaxContent
          /\ Len(st.chatHistory[k].partialContent) <= MaxContent

Dispatch(action) ==
    /\ Bounded(appReducer(state, action))
    /\ state' = appReducer(state, action)
    /\ dispatched' = action
    /\ UNCHANGED << activeStreamsRef, aborted, pc, fullContent, result, gen,
                    ctrlAborted, timeoutId, readerLocked, endedBy, received,
                    declared, updates, stops, resetTimers, authenticated,
                    initPc, escapes, buffer, rest, events, dpc, input, straddled,
                    recoveryVars, appended, effectDeps >>

\* addMessage: generateId() gives an entry an id no other entry carries
AddMessage(message) ==
    /\ message.type = "streaming" =>
          \A k \in 1 .. Len(state.chatHistory) : state.chatHistory[k].id # message.id
    /\ Dispatch([ type |-> "ADD_MESSAGE", message |-> message ])

StartStreaming(type, messageId) ==
    Dispatch([ type |-> "START_STREAMING", streamingType |-> type, messageId |-> messageId ])

UpdateStreamingContent(messageId, content) ==
    Dispatch([ type |-> "UPDATE_STREAMING_CONTENT", messageId |-> messageId,
               partialContent |-> content ])

CompleteStreaming(messageId, finalContent) ==
    Dispatch([ type |-> "COMPLETE_STREAMING", messageId |-> messageId,
               finalContent |-> finalContent ])

StopStreaming(messageId) ==
    Dispatch([ type |-> "STOP_STREAMING", messageId |-> messageId ])

RemoveStreamingMessages(messageIds) ==
    Dispatch([ type |-> "REMOVE_STREAMING_MESSAGES", messageIds |-> messageIds ])

SetConnectionStatus(status) ==
    Dispatch([ type |-> "SET_CONNECTION_STATUS", status |-> status ])

InitializeChatComplete(flag) ==
    Dispatch([ type |-> "INITIALIZE_CHAT_COMPLETE", isInitialized |-> flag ])

InitReducer ==
    /\ authenticated = TRUE
    /\ SessionIdle
    /\ DecoderIdle

NextReducer ==
    \/ \E i \in Chat : AddMessage(streamingMessage(i, "text"))
    \/ AddMessage(SimpleMessage("system", LoginNotice))
    \/ \E i \in Chat : StartStreaming(StreamingType("text"), MsgId(i))
    \/ \E i \in Chat, content \in { << "a" >>, << "b" >> } :
          UpdateStreamingContent(MsgId(i), content)
    \/ \E i \in Chat, finalContent \in FullTexts : CompleteStreaming(MsgId(i), finalContent)
    \/ \E i \in Chat : StopStreaming(MsgId(i))
    \/ \E ids \in SUBSET { MsgId(i) : i \in Chat } : RemoveStreamingMessages(ids)
    \/ \E status \in ConnectionStatuses : SetConnectionStatus(status)
    \/ \E flag \in BOOLEAN : InitializeChatComplete(flag)

ReducerSpec == InitReducer /\ [][NextReducer]_vars

(***************************************************************************)
(* The decoder alone: the read loop of AgentCoreService.chatStream, pulled *)
(* to its end by a consumer that takes every event.  The transport carries *)
(* the text input and hands it over in chunks of any length.  A text is    *)
(* the sequence of its pieces: a newline, a field prefix, a tag word, a    *)
(* part of a payload.                                                      *)
(***************************************************************************)
MaxBlocks == 2     \* event blocks of one response body

NL == "\n"
DataPrefix == "data: "
EventPrefix == "event: "
Whitespace == { NL, " " }

\* payloads, each in two pieces so that a chunk may end inside one
TextA == << "{\"data\":", "\"a\"}" >>
TextB == << "{\"text\":", "\"b\"}" >>
TypedText == << "{\"type\":\"text\",", "\"content\":\"c\"}" >>
StatusS == << "{\"status\":", "\"s\"}" >>
CompleteAB == << "{\"fullText\":", "\"ab\"}" >>
ErrorM == << "{\"message\":", "\"m\"}" >>
JsonNull == << "null" >>
Malformed == << "{\"data\":" >>
KeepAlive == << "keep-alive" >>
Done == << "[DONE]" >>

ChatStreamError == << "Chat stream error" >>

\* JSON.parse(data): ok = FALSE when it throws a SyntaxError
JsonParse(data) ==
    CASE data = TextA -> [ ok |-> TRUE, isNull |-> FALSE, value |-> [ data |-> << "a" >> ] ]
      [] data = TextB -> [ ok |-> TRUE, isNull |-> FALSE, value |-> [ text |-> << "b" >> ] ]
      [] data = TypedText ->
            [ ok |-> TRUE, isNull |-> FALSE,
              value |-> [ type |-> << "text" >>, content |-> << "c" >> ] ]
      [] data = StatusS -> [ ok |-> TRUE, isNull |-> FALSE, value |-> [ status |-> << "s" >> ] ]
      [] data = CompleteAB ->
            [ ok |-> TRUE, isNull |-> FALSE, value |-> [ fullText |-> << "a", "b" >> ] ]
      [] data = ErrorM -> [ ok |-> TRUE, isNull |-> FALSE, value |-> [ message |-> << "m" >> ] ]
      [] data = JsonNull -> [ ok |-> TRUE, isNull |-> TRUE, value |-> [ none |-> << >> ] ]
      [] OTHER -> [ ok |-> FALSE, isNull |-> FALSE, value |-> [ none |-> << >> ] ]

\* parsed.field of an object
Field(obj, f) == IF f \in DOMAIN obj THEN obj[f] ELSE Undefined

\* s.split(sep) for a one-piece or two-piece separator sep
RECURSIVE Split(_, _)
Split(s, sep) ==
    LET At == { k \in 1 .. Len(s) - Len(sep) + 1 : SubSeq(s, k, k + Len(sep) - 1) = sep }
    IN  IF At = {} THEN << s >>
        ELSE LET k == CHOOSE x \in At : \A y \in At : x <= y
             IN  << SubSeq(s, 1, k - 1) >> \o Split(SubSeq(s, k + Len(sep), Len(s)), sep)

\* !message.trim()
IsBlank(message) == \A k \in 1 .. Len(message) : message[k] \in Whitespace

\* the for loop over the lines: the last line with the prefix gives the field
FieldOf(lines, prefix) ==
    LET With == { k \in 1 .. Len(lines) : lines[k] # << >> /\ Head(lines[k]) = prefix }
    IN  IF With = {} THEN << >>
        ELSE Tail(lines[CHOOSE x \in With : \A y \in With : x >= y])

\* the tag of a block: its event line, else the type property of its payload
EventTypeOf(message) ==
    LET lines == Split(message, << NL >>)
        data == FieldOf(lines, DataPrefix)
        eventType == FieldOf(lines, EventPrefix)
        parsed == JsonParse(data)
    IN  IF eventType = << >> /\ data # << >>
        THEN IF parsed.ok /\ ~parsed.isNull
             THEN OrElse(Field(parsed.value, "type"), << >>)
             ELSE << >>
        ELSE eventType

DataOf(message) == FieldOf(Split(message, << NL >>), DataPrefix)

ErrorEvent(message) == [ type |-> "error", payload |-> message ]
TextEvent(text) == [ type |-> "text", payload |-> text ]
StatusEvent(message) == [ type |-> "status", payload |-> message ]
CompleteEvent(fullText) == [ type |-> "complete", payload |-> fullText ]

\* the branch of an error tag: the throw that follows the first yield is
\* caught by the same try, so a second, generic error event is yielded
\* before the throw that ends the generator
ErrorBlock(data) ==
    LET errorData == JsonParse(data)
    IN  IF errorData.ok /\ ~errorData.isNull
        THEN << ErrorEvent(OrElse(Field(errorData.value, "message"), ChatStreamError)),
                ErrorEvent(ChatStreamError) >>
        ELSE << ErrorEvent(ChatStreamError) >>

\* the branch of the other tags; reading a property of null throws a
\* TypeError inside the try, and the block is dropped like malformed JSON
ParsedBlock(eventType, data) ==
    LET parsed == JsonParse(data)
    IN  CASE ~parsed.ok \/ parsed.isNull -> << >>
          [] eventType = << "text" >> ->
                << TextEvent(OrElse(OrElse(Field(parsed.value, "data"),
                                           Field(parsed.value, "content")),
                                    Field(parsed.value, "text"))) >>
          [] eventType = << "status" >> ->
                << StatusEvent(OrElse(Field(parsed.value, "message"),
                                      Field(parsed.value, "status"))) >>
          [] eventType = << "complete" >> ->
                << CompleteEvent(Field(parsed.value, "fullText")) >>
          [] OTHER -> << >>

\* the error tag looked at before the heartbeat and the empty payload
ProcessBlock_ErrorFirst(message) ==
    LET data == DataOf(message)
        eventType == EventTypeOf(message)
    IN  CASE IsBlank(message) -> [ events |-> << >>, outcome |-> "continue" ]
          [] eventType = << "error" >> -> [ events |-> ErrorBlock(data), outcome |-> "failed" ]
          [] data = KeepAlive \/ data = << >> -> [ events |-> << >>, outcome |-> "continue" ]
          [] data = Done -> [ events |-> << >>, outcome |-> "returned" ]
          [] OTHER ->
                [ events |-> ParsedBlock(eventType, data),
                  outcome |-> IF \E k \in 1 .. Len(ParsedBlock(eventType, data)) :
                                    ParsedBlock(eventType, data)[k].type = "complete"
                              THEN "returned" ELSE "continue" ]

\* one pass of the body of `for (const message of messages)`: what it
\* yields, and how it leaves: "continue", "returned" or "failed"
ProcessBlock(message) ==
    LET data == DataOf(message)
        eventType == EventTypeOf(message)
    IN  CASE IsBlank(message) -> [ events |-> << >>, outcome |-> "continue" ]
          [] data = KeepAlive \/ data = << >> -> [ events |-> << >>, outcome |-> "continue" ]
          [] eventType = << "error" >> -> [ events |-> ErrorBlock(data), outcome |-> "failed" ]
          [] data = Done -> [ events |-> << >>, outcome |-> "returned" ]
          [] OTHER ->
                [ events |-> ParsedBlock(eventType, data),
                  outcome |-> IF \E k \in 1 .. Len(ParsedBlock(eventType, data)) :
                                    ParsedBlock(eventType, data)[k].type = "complete"
                              THEN "returned" ELSE "continue" ]

\* the for loop over the complete blocks of the buffer
RECURSIVE ProcessBlocks(_)
ProcessBlocks(messages) ==
    IF messages = << >> THEN [ events |-> << >>, outcome |-> "continue" ]
    ELSE LET first == ProcessBlock(Head(messages))
             others == ProcessBlocks(Tail(messages))
         IN  IF first.outcome # "continue" THEN first
             ELSE [ events |-> first.events \o others.events, outcome |-> others.outcome ]

\* messages.pop(): the blocks before the last separator
Complete(messages) == SubSeq(messages, 1, Len(messages) - 1)

\* the part of the buffer behind the last separator is not kept
Carry_Dropped(messages) == << >>

\* buffer = messages.pop() || ''
Carry(messages) == messages[Len(messages)]

\* reader.read() resolves with a chunk: the next n pieces of the text
ReadChunk(n) ==
    /\ dpc = "reading"
    /\ n \in 1 .. Len(rest)
    /\ LET messages == Split(buffer \o SubSeq(rest, 1, n), << NL, NL >>)
           run == ProcessBlocks(Complete(messages))
       IN  /\ buffer' = Carry(messages)
           /\ events' = events \o run.events
           /\ dpc' = IF run.outcome = "continue" THEN "reading" ELSE run.outcome
           /\ straddled' = (straddled \/ ~IsBlank(Carry(messages)))
    /\ rest' = SubSeq(rest, n + 1, Len(rest))
    /\ UNCHANGED << state, activeStreamsRef, aborted, pc, fullContent, result, gen,
                    ctrlAborted, timeoutId, readerLocked, endedBy, received,
                    declared, updates, stops, resetTimers, authenticated,
                    initPc, escapes, dispatched, input, recoveryVars, appended, effectDeps >>

\* an end of body that decodes what is left in the buffer as one more block
ReadDone_Flushes ==
    /\ dpc = "reading"
    /\ rest = << >>
    /\ events' = events \o ProcessBlock(buffer).events
    /\ dpc' = IF ProcessBlock(buffer).outcome = "failed" THEN "failed" ELSE "ended"
    /\ buffer' = << >>
    /\ UNCHANGED << state, activeStreamsRef, aborted, pc, fullContent, result, gen,
                    ctrlAborted, timeoutId, readerLocked, endedBy, received,
                    declared, updates, stops, resetTimers, authenticated,
                    initPc, escapes, dispatched, rest, input,
                    straddled, recoveryVars, appended, effectDeps >>

\* reader.read() resolves with done: the body has been delivered
ReadDone ==
    /\ dpc = "reading"
    /\ rest = << >>
    /\ dpc' = "ended"
    /\ UNCHANGED << state, activeStreamsRef, aborted, pc, fullContent, result, gen,
                    ctrlAborted, timeoutId, readerLocked, endedBy, received,
                    declared, updates, stops, resetTimers, authenticated,
                    initPc, escapes, dispatched, buffer, rest, events, input,
                    straddled, recoveryVars, appended, effectDeps >>

\* the blocks a backend may send
Tagged(tag, data) == << EventPrefix, tag, NL, DataPrefix >> \o data

Blocks ==
    { Tagged("text", TextA),
      << DataPrefix >> \o TextB \o << NL, EventPrefix, "text" >>,
      << DataPrefix >> \o TypedText,
      Tagged("status", StatusS),
      Tagged("complete", CompleteAB),
      Tagged("error", ErrorM),
      Tagged("error", Done),
      Tagged("error", Malformed),
      Tagged("error", KeepAlive),
      << EventPrefix, "complete" >>,
      Tagged("text", JsonNull),
      Tagged("text", Malformed),
      Tagged("ping", TextA),
      << DataPrefix >> \o KeepAlive,
      << DataPrefix >> \o Done,
      << DataPrefix >>,
      << " " >>,
      << NL >> \o Tagged("text", TextB) }

\* blocks, each ended by a blank line when terminated, else all but the last
RECURSIVE Body(_, _)
Body(blocks, terminated) ==
    IF blocks = << >> THEN << >>
    ELSE Head(blocks)
           \o (IF Len(blocks) > 1 \/ terminated THEN << NL, NL >> ELSE << >>)
           \o Body(Tail(blocks), terminated)

Bodies ==
    { Body(blocks, terminated) :
        blocks \in UNION { [ 1 .. n -> Blocks ] : n \in 0 .. MaxBlocks },
        terminated \in BOOLEAN }

InitDecoder ==
    /\ authenticated = TRUE
    /\ SessionIdle
    /\ dispatched = NoAction
    /\ input \in Bodies
    /\ rest = input
    /\ buffer = << >>
    /\ events = << >>
    /\ dpc = "reading"
    /\ straddled = FALSE
    /\ RecoveryIdle
    /\ appended = << >>
    /\ effectDeps = NotRun

NextDecoder ==
    \/ \E n \in 1 .. Len(rest) : ReadChunk(n)
    \/ ReadDone

DecoderSpec == InitDecoder /\ [][NextDecoder]_vars

\* the decoder has left its read loop
Finished == dpc \in { "returned", "ended", "failed" }

\* the read loop given the whole text as one chunk, then the end of the body
Whole(text) ==
    LET run == ProcessBlocks(Complete(Split(text, << NL, NL >>)))
    IN  [ events |-> run.events,
          dpc |-> IF run.outcome = "continue" THEN "ended" ELSE run.outcome ]

(***************************************************************************)
(* The recovery policy: StreamErrorHandler and RetryManager of             *)
(* src/src/utils/streamingHelpers.ts.  A failure is an Error with a name   *)
(* and a message; a message is the sequence of its pieces, and a marker    *)
(* that categorizeError looks for lies within one piece.                   *)
(***************************************************************************)
MaxFailures == 6   \* failures handled for one stream key
MaxTime == 120000  \* ms the clock runs
MaxAttempt == 6    \* attempt numbers given to calculateDelay

maxRetries == 3
baseDelay == 1000
maxDelay == 30000
backoffMultiplier == 2
JitterPerMille == 100              \* jitterFactor 0.1
circuitBreakerTimeout == 60000
maxFailuresBeforeBreak == 5
ServerErrorRetries == 2

StreamKeys == { "chat", "init" }

\* Math.random() as thousandths: 0 <= random < 1
RandomScale == 1000
Randoms == { 0, 250, 500, 999 }

\* toLowerCase() of a piece
Lower(piece) ==
    CASE piece = "Unauthorized" -> "unauthorized"
      [] piece = "Retry-After" -> "retry-after"
      [] piece = "Rate limited, " -> "rate limited, "
      [] piece = "AbortError" -> "aborterror"
      [] piece = "TimeoutError" -> "timeouterror"
      [] piece = "Error" -> "error"
      [] piece = "StreamError" -> "streamerror"
      [] piece = "NetworkError" -> "networkerror"
      [] piece = "Forbidden" -> "forbidden"
      [] piece = "Too Many Requests" -> "too many requests"
      [] OTHER -> piece

\* the markers a lower-case piece includes
MarkersIn(piece) ==
    CASE piece = "network request failed" -> { "network" }
      [] piece = "fetch failed" -> { "fetch" }
      [] piece = "request timeout" -> { "timeout" }
      [] piece = "the operation was aborted" -> { "abort" }
      [] piece = "401" -> { "401" }
      [] piece = "unauthorized" -> { "unauthorized" }
      [] piece = "429" -> { "429" }
      [] piece = "rate limited, " -> { "rate limit" }
      [] piece = "500" -> { "5" }
      [] piece = "internal server error" -> { "server", "internal" }
      [] piece = "network timeout" -> { "network", "timeout" }
      [] piece = "connection refused" -> { "connection" }
      [] piece = "forbidden" -> { "forbidden" }
      [] piece = "too many requests" -> { "too many" }
      [] piece = "aborterror" -> { "abort" }
      [] piece = "timeouterror" -> { "timeout" }
      [] piece = "networkerror" -> { "network" }
      [] OTHER -> { }

\* message.includes(marker), message in lower case
Includes(message, marker) ==
    \E k \in 1 .. Len(message) : marker \in MarkersIn(Lower(message[k]))

\* the same tests with the network markers tried before the timeout ones
categorizeError_NetworkFirst(error) ==
    LET message == error.message
        name == Lower(error.name)
    IN  IF name = "aborterror" \/ Includes(message, "abort") THEN "abort"
        ELSE IF Includes(message, "network") \/ Includes(message, "fetch")
                  \/ Includes(message, "connection") THEN "network"
        ELSE IF name = "timeouterror" \/ Includes(message, "timeout") THEN "timeout"
        ELSE IF Includes(message, "401") \/ Includes(message, "unauthorized")
                  \/ Includes(message, "forbidden") THEN "authentication"
        ELSE IF Includes(message, "429") \/ Includes(message, "rate limit")
                  \/ Includes(message, "too many") THEN "rate_limit"
        ELSE IF Includes(message, "5")
                  /\ (Includes(message, "server") \/ Includes(message, "internal"))
             THEN "server_error"
        ELSE "unknown"

categorizeError(error) ==
    LET message == error.message
        name == Lower(error.name)
    IN  IF name = "aborterror" \/ Includes(message, "abort") THEN "abort"
        ELSE IF name = "timeouterror" \/ Includes(message, "timeout") THEN "timeout"
        ELSE IF Includes(message, "network") \/ Includes(message, "fetch")
                  \/ Includes(message, "connection") THEN "network"
        ELSE IF Includes(message, "401") \/ Includes(message, "unauthorized")
                  \/ Includes(message, "forbidden") THEN "authentication"
        ELSE IF Includes(message, "429") \/ Includes(message, "rate limit")
                  \/ Includes(message, "too many") THEN "rate_limit"
        ELSE IF Includes(message, "5")
                  /\ (Includes(message, "server") \/ Includes(message, "internal"))
             THEN "server_error"
        ELSE "unknown"

isRetryable(errorType) == errorType \in { "network", "timeout", "server_error", "rate_limit" }

\* parseInt of a run of digits
Digits == { "0", "2", "30" }
ParseInt(digits) == CASE digits = "0" -> 0 [] digits = "2" -> 2 [] digits = "30" -> 30

\* message.match(/retry[- ]after[:\s](\d+)/i): where the pattern matches.
\* One character of [:\s] stands between "after" and the digits.
RetryAfterMatch(message) ==
    { k \in 1 .. Len(message) - 2 :
        /\ Lower(message[k]) \in { "retry-after", "retry after" }
        /\ message[k + 1] \in { ":", " " }
        /\ message[k + 2] \in Digits }

createStreamError(originalError) ==
    LET type == categorizeError(originalError)
        retryAfterMatch == RetryAfterMatch(originalError.message)
        first == CHOOSE k \in retryAfterMatch : \A j \in retryAfterMatch : k <= j
    IN  [ name |-> "StreamError",
          message |-> originalError.message,
          type |-> type,
          retryable |-> isRetryable(type),
          retryAfter |-> IF type = "rate_limit" /\ retryAfterMatch # {}
                         THEN RetryAfter(ParseInt(originalError.message[first + 2]) * 1000)
                         ELSE NoRetryAfter ]

Count(counts, streamId) == IF streamId \in DOMAIN counts THEN counts[streamId] ELSE 0

\* what isCircuitOpen returns at time t
isCircuitOpen(circuitBreaker, t) == circuitBreaker.isOpen /\ t < circuitBreaker.nextRetryTime

\* what isCircuitOpen leaves of the breaker it was given: half-open once the
\* cool-down has elapsed
HalfOpen(circuitBreaker, t) ==
    IF circuitBreaker.isOpen /\ t >= circuitBreaker.nextRetryTime
    THEN [ circuitBreaker EXCEPT !.isOpen = FALSE ]
    ELSE circuitBreaker

updateCircuitBreaker(breakers, streamId, t) ==
    LET circuitBreaker ==
            IF streamId \notin DOMAIN breakers
            THEN [ isOpen |-> FALSE, lastFailure |-> t, failureCount |-> 1, nextRetryTime |-> 0 ]
            ELSE [ breakers[streamId] EXCEPT !.failureCount = @ + 1, !.lastFailure = t ]
        opened ==
            IF circuitBreaker.failureCount >= maxFailuresBeforeBreak
            THEN [ circuitBreaker EXCEPT !.isOpen = TRUE,
                                         !.nextRetryTime = t + circuitBreakerTimeout ]
            ELSE circuitBreaker
    IN  MapSet(breakers, streamId, opened)

\* the switch of handleStreamError with every network failure retried
RecoveryAction_Unlimited(errorType, errorCount) ==
    CASE errorType \in { "network", "timeout" } -> "retry"
      [] errorType = "authentication" -> "reauthenticate"
      [] errorType = "rate_limit" -> "backoff"
      [] errorType = "server_error" ->
            IF errorCount < ServerErrorRetries THEN "retry" ELSE "fallback"
      [] errorType = "abort" -> "fail"
      [] OTHER -> "fail"

\* the switch of handleStreamError with a credential failure retried
RecoveryAction_RetriesCredential(errorType, errorCount) ==
    CASE errorType \in { "network", "timeout" } ->
            IF errorCount < maxRetries THEN "retry" ELSE "circuit_break"
      [] errorType = "authentication" -> "retry"
      [] errorType = "rate_limit" -> "backoff"
      [] errorType = "server_error" ->
            IF errorCount < ServerErrorRetries THEN "retry" ELSE "fallback"
      [] errorType = "abort" -> "fail"
      [] OTHER -> "fail"

\* the switch of handleStreamError
RecoveryAction(errorType, errorCount) ==
    CASE errorType \in { "network", "timeout" } ->
            IF errorCount < maxRetries THEN "retry" ELSE "circuit_break"
      [] errorType = "authentication" -> "reauthenticate"
      [] errorType = "rate_limit" -> "backoff"
      [] errorType = "server_error" ->
            IF errorCount < ServerErrorRetries THEN "retry" ELSE "fallback"
      [] errorType = "abort" -> "fail"
      [] OTHER -> "fail"

\* handleStreamError with the open breaker answering only the retryable kinds
handleStreamError_RetryableOnly(error, streamId) ==
    LET streamError == createStreamError(error)
        errorType == streamError.type
        errorCount == Count(errorCounts, streamId)
        counted == MapSet(errorCounts, streamId, errorCount + 1)
        known == streamId \in DOMAIN circuitBreakers
    IN  IF known /\ isCircuitOpen(circuitBreakers[streamId], now) /\ isRetryable(errorType)
        THEN [ action |-> "circuit_break", type |-> errorType,
               errorCounts |-> counted, circuitBreakers |-> circuitBreakers ]
        ELSE [ action |-> RecoveryAction(errorType, errorCount), type |-> errorType,
               errorCounts |-> counted,
               circuitBreakers |->
                   updateCircuitBreaker(
                       IF known
                       THEN MapSet(circuitBreakers, streamId,
                                   HalfOpen(circuitBreakers[streamId], now))
                       ELSE circuitBreakers,
                       streamId, now) ]

\* handleStreamError(error, streamId): what it returns and what it leaves in
\* the two maps
handleStreamError(error, streamId) ==
    LET streamError == createStreamError(error)
        errorType == streamError.type
        errorCount == Count(errorCounts, streamId)
        counted == MapSet(errorCounts, streamId, errorCount + 1)
        known == streamId \in DOMAIN circuitBreakers
    IN  IF known /\ isCircuitOpen(circuitBreakers[streamId], now)
        THEN [ action |-> "circuit_break", type |-> errorType,
               errorCounts |-> counted, circuitBreakers |-> circuitBreakers ]
        ELSE [ action |-> RecoveryAction(errorType, errorCount), type |-> errorType,
               errorCounts |-> counted,
               circuitBreakers |->
                   updateCircuitBreaker(
                       IF known
                       THEN MapSet(circuitBreakers, streamId,
                                   HalfOpen(circuitBreakers[streamId], now))
                       ELSE circuitBreakers,
                       streamId, now) ]

HandleStreamError(error, streamId) ==
    /\ Count(errorCounts, streamId) < MaxFailures
    /\ \E handled \in { handleStreamError(error, streamId) } :
           /\ errorCounts' = handled.errorCounts
           /\ circuitBreakers' = handled.circuitBreakers
           /\ decision' = [ action |-> handled.action, streamId |-> streamId,
                            type |-> handled.type ]
    /\ UNCHANGED << state, activeStreamsRef, aborted, pc, fullContent, result, gen,
                    ctrlAborted, timeoutId, readerLocked, endedBy, received, declared,
                    updates, stops, resetTimers, authenticated, initPc, escapes,
                    dispatched, buffer, rest, events, dpc, input, straddled, appended, effectDeps, retry,
                    now, delayed >>

ResetCircuitBreaker(streamId) ==
    /\ circuitBreakers' = MapDelete(circuitBreakers, { streamId })
    /\ errorCounts' = MapDelete(errorCounts, { streamId })
    /\ UNCHANGED << state, activeStreamsRef, aborted, pc, fullContent, result, gen,
                    ctrlAborted, timeoutId, readerLocked, endedBy, received, declared,
                    updates, stops, resetTimers, authenticated, initPc, escapes,
                    dispatched, buffer, rest, events, dpc, input, straddled, appended, effectDeps, retry,
                    now, decision, delayed >>

Cleanup ==
    /\ errorCounts' = [ k \in {} |-> 0 ]
    /\ circuitBreakers' = [ k \in {} |-> 0 ]
    /\ UNCHANGED << state, activeStreamsRef, aborted, pc, fullContent, result, gen,
                    ctrlAborted, timeoutId, readerLocked, endedBy, received, declared,
                    updates, stops, resetTimers, authenticated, initPc, escapes,
                    dispatched, buffer, rest, events, dpc, input, straddled, appended, effectDeps, retry,
                    now, decision, delayed >>

\* Date.now() moves on
Tick == 30000
Advance ==
    /\ now + Tick <= MaxTime
    /\ now' = now + Tick
    /\ UNCHANGED << state, activeStreamsRef, aborted, pc, fullContent, result, gen,
                    ctrlAborted, timeoutId, readerLocked, endedBy, received, declared,
                    updates, stops, resetTimers, authenticated, initPc, escapes,
                    dispatched, buffer, rest, events, dpc, input, straddled, appended, effectDeps, retry,
                    errorCounts, circuitBreakers, decision, delayed >>

\* the failures the handler is given
NetworkError == [ name |-> "Error", message |-> << "network request failed" >> ]
FetchError == [ name |-> "TypeError", message |-> << "fetch failed" >> ]
TimeoutError == [ name |-> "TimeoutError", message |-> << "request timeout" >> ]
AbortError == [ name |-> "AbortError", message |-> << "the operation was aborted" >> ]
CredentialError == [ name |-> "Error", message |-> << "401", " ", "Unauthorized" >> ]
RateLimitError == [ name |-> "Error", message |-> << "429" >> ]
ServerError == [ name |-> "Error", message |-> << "500", " ", "internal server error" >> ]
UnknownError == [ name |-> "Error", message |-> << "boom" >> ]
Errors ==
    { NetworkError, FetchError, TimeoutError, AbortError, CredentialError,
      RateLimitError, ServerError, UnknownError }

\* failures that carry several markers, a marker in the name only, or half
\* of the server marker
NetworkTimeout == [ name |-> "Error", message |-> << "network timeout" >> ]
ConnectionRefused == [ name |-> "Error", message |-> << "connection refused" >> ]
ForbiddenFetch == [ name |-> "Error", message |-> << "fetch failed", ": ", "Forbidden" >> ]
RateLimitedFetch == [ name |-> "TypeError", message |-> << "fetch failed", ": ", "429" >> ]
TooManyRequests == [ name |-> "Error", message |-> << "Too Many Requests" >> ]
TooManyWith500 == [ name |-> "Error", message |-> << "500", " ", "Too Many Requests" >> ]
NamedNetworkError == [ name |-> "NetworkError", message |-> << "boom" >> ]
StatusOnly == [ name |-> "Error", message |-> << "500" >> ]
ServerOnly == [ name |-> "Error", message |-> << "internal server error" >> ]
AbortedFetch == [ name |-> "AbortError", message |-> << "fetch failed" >> ]
TimedOutAbort ==
    [ name |-> "TimeoutError", message |-> << "the operation was aborted" >> ]
MarkedErrors ==
    { NetworkTimeout, ConnectionRefused, ForbiddenFetch, RateLimitedFetch,
      TooManyRequests, TooManyWith500, NamedNetworkError, StatusOnly, ServerOnly,
      AbortedFetch, TimedOutAbort }

InitRecovery == authenticated = TRUE /\ SessionIdle /\ DecoderIdle

NextRecovery ==
    \/ \E error \in Errors \cup MarkedErrors, streamId \in StreamKeys :
          HandleStreamError(error, streamId)
    \/ \E streamId \in StreamKeys : ResetCircuitBreaker(streamId)
    \/ Cleanup
    \/ Advance

RecoverySpec == InitRecovery /\ [][NextRecovery]_vars

(***************************************************************************)
(* RetryManager: the delay before the next attempt and the catch block of  *)
(* withRetry.                                                              *)
(***************************************************************************)
RECURSIVE Pow(_, _)
Pow(base, exponent) == IF exponent = 0 THEN 1 ELSE base * Pow(base, exponent - 1)

Min(a, b) == IF a <= b THEN a ELSE b

\* calculateDelay with the cap left out
calculateDelay_Uncapped(attempt, retryAfter, random) ==
    IF retryAfter.present /\ retryAfter.ms # 0
    THEN retryAfter.ms
    ELSE LET exponentialDelay == baseDelay * Pow(backoffMultiplier, attempt)
         IN  exponentialDelay
               + (((exponentialDelay * JitterPerMille) \div 1000) * random) \div RandomScale

\* calculateDelay(attempt, retryAfter?), random being what Math.random() gave
\* in thousandths; `if (retryAfter)` is false for undefined and for 0
calculateDelay(attempt, retryAfter, random) ==
    IF retryAfter.present /\ retryAfter.ms # 0
    THEN retryAfter.ms
    ELSE LET exponentialDelay == baseDelay * Pow(backoffMultiplier, attempt)
             cappedDelay == Min(exponentialDelay, maxDelay)
         IN  cappedDelay + (((cappedDelay * JitterPerMille) \div 1000) * random) \div RandomScale

Delayed(attempt, retryAfter, random) ==
    [ delay |-> calculateDelay(attempt, retryAfter, random), attempt |-> attempt,
      random |-> random, retryAfter |-> retryAfter ]

CalculateDelay(attempt, retryAfter, random) ==
    /\ delayed' = Delayed(attempt, retryAfter, random)
    /\ UNCHANGED << state, activeStreamsRef, aborted, pc, fullContent, result, gen,
                    ctrlAborted, timeoutId, readerLocked, endedBy, received, declared,
                    updates, stops, resetTimers, authenticated, initPc, escapes,
                    dispatched, buffer, rest, events, dpc, input, straddled, appended, effectDeps, retry,
                    errorCounts, circuitBreakers, now, decision >>

\* withRetry(operation, errorHandler, streamId): the loop is entered and the
\* operation invoked for attempt 0
WithRetry(streamId) ==
    /\ retry.pc \in { "idle", "returned", "thrown" }
    /\ retry' = [ pc |-> "awaiting", streamId |-> streamId, attempt |-> 0, calls |-> 1,
                  failed |-> "none", raised |-> "none" ]
    /\ UNCHANGED << state, activeStreamsRef, aborted, pc, fullContent, result, gen,
                    ctrlAborted, timeoutId, readerLocked, endedBy, received, declared,
                    updates, stops, resetTimers, authenticated, initPc, escapes,
                    dispatched, buffer, rest, events, dpc, input, straddled, appended, effectDeps,
                    errorCounts, circuitBreakers, now, decision, delayed >>

\* the operation resolves and only the breaker record is deleted
OperationSucceeds_KeepsCount ==
    /\ retry.pc = "awaiting"
    /\ circuitBreakers' = MapDelete(circuitBreakers, { retry.streamId })
    /\ retry' = [ retry EXCEPT !.pc = "returned" ]
    /\ UNCHANGED << state, activeStreamsRef, aborted, pc, fullContent, result, gen,
                    ctrlAborted, timeoutId, readerLocked, endedBy, received, declared,
                    updates, stops, resetTimers, authenticated, initPc, escapes,
                    dispatched, buffer, rest, events, dpc, input, straddled, appended, effectDeps,
                    errorCounts, now, decision, delayed >>

\* the operation resolves: resetCircuitBreaker(streamId) and return
OperationSucceeds ==
    /\ retry.pc = "awaiting"
    /\ circuitBreakers' = MapDelete(circuitBreakers, { retry.streamId })
    /\ errorCounts' = MapDelete(errorCounts, { retry.streamId })
    /\ retry' = [ retry EXCEPT !.pc = "returned" ]
    /\ UNCHANGED << state, activeStreamsRef, aborted, pc, fullContent, result, gen,
                    ctrlAborted, timeoutId, readerLocked, endedBy, received, declared,
                    updates, stops, resetTimers, authenticated, initPc, escapes,
                    dispatched, buffer, rest, events, dpc, input, straddled, appended, effectDeps,
                    now, decision, delayed >>

\* what the catch block raises when it does not sleep
Raised(attempt, action) ==
    IF attempt = maxRetries \/ action \in { "fail", "circuit_break" }
    THEN "StreamError"
    ELSE IF action = "reauthenticate" THEN "AuthenticationRequired" ELSE "StreamError"

\* a catch block that sleeps after every retry or backoff answer, whatever the attempt
WithRetryCatch_IgnoresLimit(error, streamId, attempt, random) ==
    /\ retry.pc = "awaiting"
    /\ streamId = retry.streamId
    /\ attempt = retry.attempt
    /\ Count(errorCounts, streamId) < MaxFailures
    /\ \E streamError \in { createStreamError(error) } :
       \E handled \in { handleStreamError(streamError, streamId) } :
       LET sleeps == handled.action \in { "retry", "backoff" }
       IN  /\ errorCounts' = handled.errorCounts
           /\ circuitBreakers' = handled.circuitBreakers
           /\ decision' = [ action |-> handled.action, streamId |-> streamId,
                            type |-> handled.type ]
           /\ delayed' = IF sleeps
                         THEN Delayed(attempt, streamError.retryAfter, random)
                         ELSE NoDelay
           /\ retry' = IF sleeps
                       THEN [ retry EXCEPT !.pc = "sleeping", !.failed = streamError.type ]
                       ELSE [ retry EXCEPT !.pc = "thrown", !.failed = streamError.type,
                                           !.raised = Raised(attempt, handled.action) ]
    /\ UNCHANGED << state, activeStreamsRef, aborted, pc, fullContent, result, gen,
                    ctrlAborted, timeoutId, readerLocked, endedBy, received, declared,
                    updates, stops, resetTimers, authenticated, initPc, escapes,
                    dispatched, buffer, rest, events, dpc, input, straddled, appended, effectDeps, now >>

\* the catch block of withRetry for the failure of attempt number `attempt`
WithRetryCatch(error, streamId, attempt, random) ==
    /\ retry.pc = "awaiting"
    /\ streamId = retry.streamId
    /\ attempt = retry.attempt
    /\ Count(errorCounts, streamId) < MaxFailures
    /\ \E streamError \in { createStreamError(error) } :
       \E handled \in { handleStreamError(streamError, streamId) } :
       LET sleeps == attempt # maxRetries /\ handled.action \in { "retry", "backoff" }
       IN  /\ errorCounts' = handled.errorCounts
           /\ circuitBreakers' = handled.circuitBreakers
           /\ decision' = [ action |-> handled.action, streamId |-> streamId,
                            type |-> handled.type ]
           /\ delayed' = IF sleeps
                         THEN Delayed(attempt, streamError.retryAfter, random)
                         ELSE NoDelay
           /\ retry' = IF sleeps
                       THEN [ retry EXCEPT !.pc = "sleeping", !.failed = streamError.type ]
                       ELSE [ retry EXCEPT !.pc = "thrown", !.failed = streamError.type,
                                           !.raised = Raised(attempt, handled.action) ]
    /\ UNCHANGED << state, activeStreamsRef, aborted, pc, fullContent, result, gen,
                    ctrlAborted, timeoutId, readerLocked, endedBy, received, declared,
                    updates, stops, resetTimers, authenticated, initPc, escapes,
                    dispatched, buffer, rest, events, dpc, input, straddled, appended, effectDeps, now >>

\* sleep(delay) is over: the next attempt invokes the operation again
SleepEnds ==
    /\ retry.pc = "sleeping"
    /\ retry' = [ retry EXCEPT !.pc = "awaiting", !.attempt = @ + 1, !.calls = @ + 1 ]
    /\ UNCHANGED << state, activeStreamsRef, aborted, pc, fullContent, result, gen,
                    ctrlAborted, timeoutId, readerLocked, endedBy, received, declared,
                    updates, stops, resetTimers, authenticated, initPc, escapes,
                    dispatched, buffer, rest, events, dpc, input, straddled, appended, effectDeps,
                    errorCounts, circuitBreakers, now, decision, delayed >>

\* a rate-limit failure whose message declares a retry-after of `digits`
\* seconds, the digits following "retry-after" after `separator`
RateLimited(separator, digits) ==
    [ name |-> "Error",
      message |-> << "rate limited, ", "retry-after" >> \o separator \o << digits >> ]

Separators == { << ":", " " >>, << ":" >>, << " " >> }

RateLimitedErrors ==
    { RateLimited(separator, digits) : separator \in Separators, digits \in Digits }

DeclaredRetryAfters == { NoRetryAfter, RetryAfter(0), RetryAfter(2000), RetryAfter(30000) }

InitRetry == authenticated = TRUE /\ SessionIdle /\ DecoderIdle

\* the key withRetry is called with
RetryKeys == { "chat" }

\* an error named AbortError whose message carries another marker
AbortedFetchError == [ name |-> "AbortError", message |-> << "fetch failed" >> ]

RetryErrors == Errors \cup RateLimitedErrors \cup { AbortedFetchError }

NextRetry ==
    \/ \E streamId \in RetryKeys : WithRetry(streamId)
    \/ OperationSucceeds
    \/ \E error \in RetryErrors, random \in Randoms :
          WithRetryCatch(error, retry.streamId, retry.attempt, random)
    \/ SleepEnds
    \/ Advance

RetrySpec == InitRetry /\ [][NextRetry]_vars

InitBackoff == authenticated = TRUE /\ SessionIdle /\ DecoderIdle

NextBackoff ==
    \E attempt \in 0 .. MaxAttempt, retryAfter \in DeclaredRetryAfters, random \in Randoms :
        CalculateDelay(attempt, retryAfter, random)

BackoffSpec == InitBackoff /\ [][NextBackoff]_vars

(***************************************************************************)
(* The transcript alone: entries appended through ADD_MESSAGE, by          *)
(* addMessage and by the first dispatches of startStream, far beyond the   *)
(* window of HistoryLimit entries.                                         *)
(***************************************************************************)
MaxAppended == 102

\* the n-th entry appended: generateId() gives it an id of its own
Note(n) == [ SimpleMessage("user", << "a" >>) EXCEPT !.id = << "note", n >> ]

\* addMessage(message)
AppendMessage ==
    /\ Len(appended) < MaxAppended
    /\ LET message == Note(Len(appended) + 1)
       IN  /\ state' = appReducer(state, [ type |-> "ADD_MESSAGE", message |-> message ])
           /\ appended' = Append(appended, message)
    /\ UNCHANGED << activeStreamsRef, aborted, pc, fullContent, result, gen,
                    ctrlAborted, timeoutId, readerLocked, endedBy, received, declared,
                    updates, stops, resetTimers, authenticated, initPc, escapes,
                    dispatched, buffer, rest, events, dpc, input, straddled,
                    recoveryVars, effectDeps >>

\* startStream: addMessage(streamingMessage); startStreaming(type, id)
AppendStreaming(i, mode) ==
    /\ Len(appended) < MaxAppended
    /\ MsgId(i) \notin activeStreamsRef
    /\ \A k \in 1 .. Len(appended) : appended[k].id # MsgId(i)
    /\ state' = appReducer(
                    appReducer(state, [ type |-> "ADD_MESSAGE",
                                        message |-> streamingMessage(i, mode) ]),
                    [ type |-> "START_STREAMING", streamingType |-> StreamingType(mode),
                      messageId |-> MsgId(i) ])
    /\ activeStreamsRef' = activeStreamsRef \cup { MsgId(i) }
    /\ appended' = Append(appended, streamingMessage(i, mode))
    /\ UNCHANGED << aborted, pc, fullContent, result, gen,
                    ctrlAborted, timeoutId, readerLocked, endedBy, received, declared,
                    updates, stops, resetTimers, authenticated, initPc, escapes,
                    dispatched, buffer, rest, events, dpc, input, straddled,
                    recoveryVars, effectDeps >>

InitTranscript == authenticated = TRUE /\ SessionIdle /\ DecoderIdle

NextTranscript ==
    \/ AppendMessage
    \/ \E i \in { 1 }, mode \in { "text" } : AppendStreaming(i, mode)

TranscriptSpec == InitTranscript /\ [][NextTranscript]_vars

(***************************************************************************)
(* Reading the transcript                                                  *)
(***************************************************************************)
\* the streaming entries of st's transcript that carry id
Entries(st, id) ==
    { k \in 1 .. Len(st.chatHistory) :
        st.chatHistory[k].id = id /\ st.chatHistory[k].type = "streaming" }

HasEntry(st, id) == Entries(st, id) # {}

Entry(st, id) == st.chatHistory[CHOOSE k \in Entries(st, id) : TRUE]

Registered(st, id) == id \in DOMAIN st.activeStreams

\* a + b + ... of the strings of seq
RECURSIVE Concat(_)
Concat(seq) == IF seq = << >> THEN << >> ELSE Head(seq) \o Concat(Tail(seq))

Finalised(st, id) ==
    HasEntry(st, id) => Entry(st, id).isComplete /\ ~Entry(st, id).canStop

(***************************************************************************)
(* C1. A stream whose decoder yields text events and then a complete      *)
(* event (consumed before any cancellation): when startStream returns, the *)
(* entry is complete and cannot be stopped, the session is out of the      *)
(* registry, ConnectionStatus is connected and the session id is returned. *)
(* The content is the server's fullText when that is present AND NOT       *)
(* EMPTY, and the concatenation of the received text payloads otherwise    *)
(* (C1_Original: whenever it is present).                                  *)
(***************************************************************************)
C1_Returns(i) == pc[i] = "completing" /\ pc'[i] = "done" /\ endedBy[i] = "complete"

C1_Outcome(i, content) ==
    /\ HasEntry(state, MsgId(i)) =>
          /\ HasEntry(state', MsgId(i))
          /\ Entry(state', MsgId(i)).isComplete
          /\ ~Entry(state', MsgId(i)).canStop
          /\ Entry(state', MsgId(i)).content = content
    /\ ~Registered(state', MsgId(i))
    /\ MsgId(i) \notin activeStreamsRef'
    /\ state'.connectionStatus = "connected"
    /\ result'[i] = MsgId(i)

C1_Completion ==
    [][ \A i \in Chat :
          C1_Returns(i) =>
              C1_Outcome(i, IF Truthy(declared[i]) THEN declared[i]
                            ELSE Concat(received[i])) ]_vars

C1_Original ==
    [][ \A i \in Chat :
          C1_Returns(i) =>
              C1_Outcome(i, IF declared[i] # Undefined THEN declared[i]
                            ELSE Concat(received[i])) ]_vars

C1_Witness ==
    \E i \in Chat :
        /\ pc[i] = "done" /\ result[i] = MsgId(i) /\ endedBy[i] = "complete"
        /\ received[i] = << << "b" >>, << "a" >> >>
        /\ declared[i] = Undefined
        /\ HasEntry(state, MsgId(i))
        /\ Entry(state, MsgId(i)).content = << "b", "a" >>

(***************************************************************************)
(* C2. Triggering the cancellation handle of an active chat session        *)
(* (stopStream, stopAllStreams) finalises the entry with the " [Stopped by *)
(* user]" annotation, takes the session out of the registry and of the     *)
(* handle map and sets ConnectionStatus to connected; the request is not   *)
(* issued again, and startStream then resolves to null with               *)
(* ConnectionStatus connected.                                             *)
(***************************************************************************)
C2_Stopped(st, i) ==
    /\ HasEntry(st, MsgId(i)) =>
          /\ Entry(st, MsgId(i)).isComplete
          /\ ~Entry(st, MsgId(i)).canStop
          /\ EndsWith(Entry(st, MsgId(i)).content, StoppedByUser)
    /\ ~Registered(st, MsgId(i))
    /\ st.connectionStatus = "connected"

C3_Ids == { MsgId(i) : i \in Chat } \cup { ConnectionId(j) : j \in Inits }
             \cup { ErrorId(j) : j \in Inits }

C3_CompleteIsTerminal ==
    [][ \A id \in C3_Ids :
          (HasEntry(state, id) /\ Entry(state, id).isComplete /\ HasEntry(state', id)) =>
              /\ Entry(state', id).content = Entry(state, id).content
              /\ Entry(state', id).partialContent = Entry(state, id).partialContent ]_vars

(***************************************************************************)
(* C5. A session whose turn has ended (startStream has resolved,           *)
(* initializeChat has finished or failed) is no longer in the registry,    *)
(* and canStop is true only while some registered session remains.         *)
(***************************************************************************)
C5_Deregistered ==
    /\ \A i \in Chat : pc[i] = "done" => ~Registered(state, MsgId(i))
    /\ \A j \in Inits : initPc[j] \in { "done", "failed" } => ~Registered(state, ConnectionId(j))
    /\ state.canStop = (DOMAIN state.activeStreams # {})

(***************************************************************************)
(* C6. ESC with streams active triggers the cancellation handle of every   *)
(* active stream and empties the handle map.                               *)
(***************************************************************************)
C6_EscapeStopsAll ==
    [][ escapes' # escapes =>
          /\ \A i \in Chat : MsgId(i) \in activeStreamsRef => aborted'[i]
          /\ activeStreamsRef' = {} ]_vars

(***************************************************************************)
(* C7. An attempt that the stream timeout timer ended (the AbortError      *)
(* path, with no stop by the user) is not finalised as a natural           *)
(* completion: startStream does not return the session id for it.          *)
(***************************************************************************)
C7_TimeoutIsNotCompletion ==
    \A i \in Chat :
        (endedBy[i] = "abort" /\ ~aborted[i]) =>
            /\ pc[i] # "completing"
            /\ result[i] # MsgId(i)

(***************************************************************************)
(* C8. Once the cancellation handle of a session is triggered, no          *)
(* UPDATE_STREAMING_CONTENT is dispatched for it any more, whatever events *)
(* its decoder still yields.                                               *)
(***************************************************************************)
C8_NoUpdateAfterAbort ==
    [][ \A i \in Chat : aborted[i] => updates'[i] = updates[i] ]_vars

C8_Witness ==
    \E i \in Chat :
        /\ aborted[i] /\ endedBy[i] = "text dropped"
        /\ updates[i] = 1 /\ received[i] = << << "a" >> >>

(***************************************************************************)
(* C4. UPDATE_STREAMING_CONTENT dispatched for an id whose entry is not a  *)
(* live streaming entry (finalised by complete or stop, removed, or never  *)
(* there) leaves the transcript as it is: same length, same entries.       *)
(***************************************************************************)
Live(st, id) == HasEntry(st, id) /\ ~Entry(st, id).isComplete

C4_StaleUpdateIsNoOp ==
    [][ (dispatched'.type = "UPDATE_STREAMING_CONTENT"
            /\ ~Live(state, dispatched'.messageId)) =>
          state'.chatHistory = state.chatHistory ]_vars

(***************************************************************************)
(* C9. Chunk-boundary independence: however the transport cuts the text    *)
(* into chunks, the decoder yields the events, and ends the way, it does   *)
(* when given the text as one chunk; and a text of N blank-line-terminated *)
(* blocks with a text or status tag and a JSON OBJECT as payload yields    *)
(* exactly N events, the k-th from the k-th block (C9_Original: with any   *)
(* valid JSON payload, null included).                                     *)
(***************************************************************************)
C9_WellFormed ==
    { Tagged("text", TextA),
      << DataPrefix >> \o TextB \o << NL, EventPrefix, "text" >>,
      << DataPrefix >> \o TypedText,
      Tagged("status", StatusS) }

C9_Expected(block) ==
    CASE block = Tagged("text", TextA) -> TextEvent(<< "a" >>)
      [] block = << DataPrefix >> \o TextB \o << NL, EventPrefix, "text" >> ->
            TextEvent(<< "b" >>)
      [] block = << DataPrefix >> \o TypedText -> TextEvent(<< "c" >>)
      [] block = Tagged("status", StatusS) -> StatusEvent(<< "s" >>)
      [] OTHER -> TextEvent(Undefined)

C9_Independent(valid) ==
    Finished =>
        /\ events = Whole(input).events
        /\ dpc = Whole(input).dpc
        /\ LET parts == Split(input, << NL, NL >>)
               blocks == SubSeq(parts, 1, Len(parts) - 1)
           IN  (parts[Len(parts)] = << >> /\ \A k \in 1 .. Len(blocks) : blocks[k] \in valid) =>
                   /\ Len(events) = Len(blocks)
                   /\ \A k \in 1 .. Len(blocks) : events[k] = C9_Expected(blocks[k])
                   /\ dpc = "ended"

C9_ChunkIndependence == C9_Independent(C9_WellFormed)

C9_Original == C9_Independent(C9_WellFormed \cup { Tagged("text", JsonNull) })

C9_Witness ==
    /\ dpc = "ended" /\ straddled
    /\ input = Body(<< Tagged("text", TextA), Tagged("status", StatusS) >>, TRUE)
    /\ events = << TextEvent(<< "a" >>), StatusEvent(<< "s" >>) >>

(***************************************************************************)
(* C10. A block whose payload is [DONE], and likewise a complete event,    *)
(* ends the decoder's sequence successfully: the blocks behind it yield    *)
(* nothing and no further chunk is read.                                   *)
(***************************************************************************)
C10_Delivered == SubSeq(rest, 1, Len(rest) - Len(rest'))

C10_TerminalEndsSequence ==
    [][ /\ dpc = "returned" => (events' = events /\ rest' = rest)
        /\ LET messages == Complete(Split(buffer \o C10_Delivered, << NL, NL >>))
           IN  \A k \in 1 .. Len(messages) :
                  (/\ DataOf(messages[k]) = Done
                   /\ ProcessBlocks(SubSeq(messages, 1, k - 1)).outcome = "continue") =>
                      /\ dpc' = "returned"
                      /\ events' = events \o ProcessBlocks(SubSeq(messages, 1, k - 1)).events
        /\ \A k \in 1 .. Len(events') :
              events'[k].type = "complete" => (k = Len(events') /\ dpc' = "returned") ]_vars

(***************************************************************************)
(* The blocks a step of the decoder goes through, and what it means for    *)
(* the step to drop the k-th of them: the step yields and ends as it would *)
(* without that block.                                                     *)
(***************************************************************************)
StepBlocks == Complete(Split(buffer \o C10_Delivered, << NL, NL >>))

Reached(messages, k) == ProcessBlocks(SubSeq(messages, 1, k - 1)).outcome = "continue"

Dropped(messages, k) ==
    LET before == ProcessBlocks(SubSeq(messages, 1, k - 1))
        after == ProcessBlocks(SubSeq(messages, k + 1, Len(messages)))
    IN  /\ events' = events \o before.events \o after.events
        /\ dpc' = IF after.outcome = "continue" THEN "reading" ELSE after.outcome

(***************************************************************************)
(* C11. A block whose data line is malformed JSON never makes the decoder  *)
(* raise, whatever its event tag, the error tag included: the block is     *)
(* dropped and decoding goes on with the next block.                       *)
(***************************************************************************)
C11_IsMalformed(data) ==
    /\ data # << >>
    /\ data \notin { KeepAlive, Done }
    /\ ~JsonParse(data).ok

C11_MalformedIsDropped ==
    [][ \A k \in 1 .. Len(StepBlocks) :
          (C11_IsMalformed(DataOf(StepBlocks[k])) /\ Reached(StepBlocks, k)) =>
              Dropped(StepBlocks, k) ]_vars

(***************************************************************************)
(* C12. A block whose payload is keep-alive, or empty, or absent, yields   *)
(* no event and neither ends nor fails the sequence, whatever its tag.     *)
(***************************************************************************)
C12_HeartbeatIsDropped ==
    [][ \A k \in 1 .. Len(StepBlocks) :
          (DataOf(StepBlocks[k]) \in { KeepAlive, << >> } /\ Reached(StepBlocks, k)) =>
              Dropped(StepBlocks, k) ]_vars

C12_Witness ==
    /\ dpc = "ended"
    /\ input = Body(<< Tagged("error", KeepAlive), Tagged("text", TextA) >>, TRUE)
    /\ events = << TextEvent(<< "a" >>) >>

(***************************************************************************)
(* C13. A credential failure is answered with reauthenticate, and never    *)
(* with retry, whatever the history of the key; the one exception is a key *)
(* whose breaker is open with its cool-down not yet elapsed, which is      *)
(* answered with circuit_break.                                            *)
(***************************************************************************)
BreakerHolds(streamId) ==
    /\ streamId \in DOMAIN circuitBreakers
    /\ circuitBreakers[streamId].isOpen
    /\ now < circuitBreakers[streamId].nextRetryTime

C13_ReauthenticateUnlessOpen ==
    [][ \A error \in Errors, streamId \in StreamKeys :
          (categorizeError(error) = "authentication" /\ HandleStreamError(error, streamId)) =>
              /\ decision'.action # "retry"
              /\ decision'.action =
                    IF BreakerHolds(streamId) THEN "circuit_break" ELSE "reauthenticate" ]_vars

\* C13 as stated: reauthenticate on every call
C13_Original ==
    [][ \A error \in Errors, streamId \in StreamKeys :
          (categorizeError(error) = "authentication" /\ HandleStreamError(error, streamId)) =>
              decision'.action = "reauthenticate" ]_vars

\* the sixth failure of a key, after the cool-down, answered with reauthenticate
C13_Witness ==
    /\ decision.action = "reauthenticate"
    /\ decision.type = "authentication"
    /\ Count(errorCounts, decision.streamId) = 6


\* every invocation of the operation settles and every sleep ends
OperationSettles ==
    \/ OperationSucceeds
    \/ \E error \in RetryErrors, random \in Randoms :
          WithRetryCatch(error, retry.streamId, retry.attempt, random)

FairRetrySpec == RetrySpec /\ WF_vars(OperationSettles) /\ WF_vars(SleepEnds)

(***************************************************************************)
(* C14. A network or timeout failure on a key is answered with retry while *)
(* the key has fewer than 3 earlier failures and with circuit_break once   *)
(* it has 3 or more; the sixth failure in a row is answered with           *)
(* circuit_break.                                                          *)
(***************************************************************************)
C14_RetryBelowLimit ==
    [][ \A error \in Errors, streamId \in StreamKeys :
          (categorizeError(error) \in { "network", "timeout" }
             /\ HandleStreamError(error, streamId)) =>
              decision'.action =
                  IF Count(errorCounts, streamId) < 3 THEN "retry" ELSE "circuit_break" ]_vars

\* the sixth failure of a key, with no time passed, answered by the open breaker
C14_Witness ==
    /\ decision.action = "circuit_break"
    /\ decision.type = "network"
    /\ now = 0
    /\ Count(errorCounts, decision.streamId) = 6
    /\ circuitBreakers[decision.streamId].failureCount = 5
    /\ circuitBreakers[decision.streamId].isOpen

(***************************************************************************)
(* C15. Once the breaker of a key has opened and its cool-down has elapsed *)
(* with no success in between, the next network failure on that key is the *)
(* half-open trial and is answered with retry rather than circuit_break.   *)
(***************************************************************************)
CooledDown(streamId) ==
    /\ streamId \in DOMAIN circuitBreakers
    /\ circuitBreakers[streamId].isOpen
    /\ now >= circuitBreakers[streamId].nextRetryTime

C15_HalfOpenRetries ==
    [][ \A error \in Errors, streamId \in StreamKeys :
          (categorizeError(error) = "network" /\ CooledDown(streamId)
             /\ HandleStreamError(error, streamId)) =>
              decision'.action = "retry" ]_vars

(***************************************************************************)
(* C16. A failure whose message declares a retry-after of n seconds in the *)
(* form "rate limited, retry-after: n" is of kind rate_limit, is answered  *)
(* with backoff, and the delay before the next attempt is exactly n*1000   *)
(* ms, whatever the attempt number and the jitter, n = 0 included.         *)
(***************************************************************************)
C16_Declares(digits) == RateLimited(<< ":", " " >>, digits)

C16_RetryAfterIsHonoured ==
    [][ \A digits \in Digits, streamId \in RetryKeys,
           attempt \in 0 .. maxRetries - 1, random \in Randoms :
          (~BreakerHolds(streamId)
             /\ WithRetryCatch(C16_Declares(digits), streamId, attempt, random)) =>
              /\ decision'.type = "rate_limit"
              /\ decision'.action = "backoff"
              /\ delayed'.delay = ParseInt(digits) * 1000 ]_vars

(***************************************************************************)
(* C17. With no retry-after declared, the delay of attempt a lies between  *)
(* the capped exponential min(base*mult^a, cap) and that value plus 10%    *)
(* (jitter is only added), and while base*mult^a is within the cap the     *)
(* delay of attempt a + 1 is at least the delay of attempt a, whatever the *)
(* jitter of either.                                                       *)
(***************************************************************************)
Exponential(attempt) == baseDelay * Pow(backoffMultiplier, attempt)

Computed(d) == d # NoDelay /\ ~d.retryAfter.present

C17_CappedRange ==
    [][ \A attempt \in 0 .. MaxAttempt, random \in Randoms :
          CalculateDelay(attempt, NoRetryAfter, random) =>
              /\ Min(Exponential(attempt), maxDelay) <= delayed'.delay
              /\ delayed'.delay * 10 <= Min(Exponential(attempt), maxDelay) * 11
              /\ (Computed(delayed) /\ attempt = delayed.attempt + 1
                    /\ Exponential(delayed.attempt) <= maxDelay) =>
                     delayed.delay <= delayed'.delay ]_vars

\* C17 as stated: within [base*mult^a, base*mult^a*1.1] for every attempt
C17_Original ==
    [][ \A attempt \in 0 .. MaxAttempt, random \in Randoms :
          CalculateDelay(attempt, NoRetryAfter, random) =>
              /\ Exponential(attempt) <= delayed'.delay
              /\ delayed'.delay * 10 <= Exponential(attempt) * 11 ]_vars

\* attempt 5, beyond the cap, with the largest jitter
C17_Witness ==
    /\ Computed(delayed)
    /\ delayed.attempt = 5
    /\ delayed.random = 999
    /\ delayed.delay = 32997

(***************************************************************************)
(* C18. After n entries have been appended the transcript holds the last   *)
(* min(n, 100) of them, in the order they were appended, and it never      *)
(* holds more than 100.                                                    *)
(***************************************************************************)
C18_MostRecentWindow ==
    LET n == Len(appended)
        kept == IF n < 100 THEN n ELSE 100
    IN  /\ Len(state.chatHistory) <= 100
        /\ Len(state.chatHistory) = kept
        /\ \A k \in 1 .. kept : state.chatHistory[k] = appended[n - kept + k]

\* two entries evicted, the third appended now the oldest kept
C18_Witness ==
    /\ Len(appended) = 102
    /\ Len(state.chatHistory) = 100
    /\ state.chatHistory[1] = Note(3)
    /\ state.chatHistory[100] = Note(102)

(***************************************************************************)
(* C19. Every session id in the registry of active sessions has its        *)
(* streaming entry in the transcript, however many entries were appended   *)
(* since the session was opened.                                           *)
(***************************************************************************)
C19_ActiveEntryIsKept ==
    /\ \A id \in DOMAIN state.activeStreams : HasEntry(state, id)
    /\ \A id \in activeStreamsRef : HasEntry(state, id)

(***************************************************************************)
(* C20. A startStream call made without a credential, or with a mode other *)
(* than text and thinking, resolves to null after appending one system     *)
(* notice and does nothing else: no streaming entry, no session            *)
(* registered, no request opened, ConnectionStatus as it was.              *)
(***************************************************************************)
C20_RefusedWithOneNotice ==
    [][ \A i \in Chat, mode \in Modes :
          ((~authenticated \/ mode \notin { "text", "thinking" })
             /\ (StartStreamRefused(i, mode) \/ StartStream(i, mode))) =>
              /\ result'[i] = Null
              /\ pc'[i] = "done"
              /\ Len(state'.chatHistory) = Len(state.chatHistory) + 1
              /\ SubSeq(state'.chatHistory, 1, Len(state.chatHistory)) = state.chatHistory
              /\ state'.chatHistory[Len(state'.chatHistory)].type = "system"
              /\ ~HasEntry(state', MsgId(i))
              /\ state'.activeStreams = state.activeStreams
              /\ activeStreamsRef' = activeStreamsRef
              /\ gen'[i] = "none"
              /\ timeoutId'[i] = FALSE
              /\ state'.connectionStatus = state.connectionStatus ]_vars

\* a call in voice mode, refused with the notice and nothing else
C20_Witness ==
    /\ authenticated
    /\ result[1] = Null
    /\ pc[1] = "done"
    /\ gen[1] = "none"
    /\ state.chatHistory = << SimpleMessage("system", ModeNotice) >>
    /\ state.activeStreams = initialState.activeStreams
    /\ state.connectionStatus = "disconnected"

(***************************************************************************)
(* C21. A cancellation by the user (stopStream or stopAllStreams, at any   *)
(* point of the stream, the opening of the request included) is never      *)
(* reported as an error: neither the stop itself nor any later step of the *)
(* cancelled call appends an error entry or sets ConnectionStatus to       *)
(* error.                                                                  *)
(***************************************************************************)
\* the entries of st's transcript that report a failure
ErrorEntries(st) ==
    { k \in 1 .. Len(st.chatHistory) :
        /\ st.chatHistory[k].content # << >>
        /\ Head(st.chatHistory[k].content)
              \in { "Chat error: ", "Failed to connect to AgentCore: " } }

C22_StopAllStopsAll ==
    [][ StopAllStreams =>
          /\ \A i \in Chat :
                (MsgId(i) \in activeStreamsRef \/ Registered(state, MsgId(i))) =>
                    /\ aborted'[i]
                    /\ HasEntry(state', MsgId(i)) =>
                          /\ Entry(state', MsgId(i)).isComplete
                          /\ EndsWith(Entry(state', MsgId(i)).content, StoppedByUser)
          /\ \A id \in DOMAIN state.activeStreams :
                /\ ~Registered(state', id)
                /\ HasEntry(state', id) => Entry(state', id).isComplete
          /\ DOMAIN state'.activeStreams = {}
          /\ activeStreamsRef' = {}
          /\ ~state'.canStop
          /\ state'.connectionStatus = "connected" ]_vars

(***************************************************************************)
(* C23. On a fresh key the first server_error failure is answered with     *)
(* retry and the second one in a row with fallback: retry is granted once. *)
(***************************************************************************)
C23_RetryOnceThenFallback ==
    [][ \A error \in Errors, streamId \in StreamKeys :
          (categorizeError(error) = "server_error" /\ HandleStreamError(error, streamId)) =>
              /\ Count(errorCounts, streamId) = 0 => decision'.action = "retry"
              /\ (/\ Count(errorCounts, streamId) = 1
                  /\ decision = [ action |-> "retry", streamId |-> streamId,
                                  type |-> "server_error" ]) =>
                     decision'.action = "fallback" ]_vars

(***************************************************************************)
(* C24. While the breaker of a key is open and its cool-down has not       *)
(* elapsed, every failure on that key is answered with circuit_break,      *)
(* whatever its kind; a failure on another key is answered from that       *)
(* key's own records, and leaves the records of the first key alone.       *)
(***************************************************************************)
C24_OpenBreakerAnswersAll ==
    [][ \A error \in Errors, streamId \in StreamKeys :
          HandleStreamError(error, streamId) =>
              /\ BreakerHolds(streamId) => decision'.action = "circuit_break"
              /\ \A other \in StreamKeys \ { streamId } :
                    BreakerHolds(other) =>
                        /\ ~BreakerHolds(streamId) =>
                              decision'.action =
                                  RecoveryAction(categorizeError(error),
                                                 Count(errorCounts, streamId))
                        /\ Count(errorCounts', other) = Count(errorCounts, other)
                        /\ circuitBreakers'[other] = circuitBreakers[other] ]_vars

\* a credential failure answered by the open breaker, the other key in use
C24_Witness ==
    /\ decision.action = "circuit_break"
    /\ decision.type = "authentication"
    /\ BreakerHolds(decision.streamId)
    /\ \E other \in StreamKeys \ { decision.streamId } :
          Count(errorCounts, other) > 0 /\ ~BreakerHolds(other)

(***************************************************************************)
(* C25. When the operation wrapped by withRetry succeeds, the failure      *)
(* counter and the breaker record of its key are cleared, and they are     *)
(* still absent when withRetry is next called for the key, so that the     *)
(* next failure is answered as the first failure of a fresh key; this is   *)
(* so whatever the state of the breaker was when the operation succeeded.  *)
(***************************************************************************)
\* a step of the catch block of withRetry: the awaited operation has failed
CatchStep == retry.pc = "awaiting" /\ retry'.pc \in { "sleeping", "thrown" }

Cleared(counts, breakers, streamId) ==
    streamId \notin DOMAIN counts /\ streamId \notin DOMAIN breakers

FirstAnswer(errorType) ==
    CASE errorType \in { "network", "timeout", "server_error" } -> "retry"
      [] errorType = "rate_limit" -> "backoff"
      [] errorType = "authentication" -> "reauthenticate"
      [] OTHER -> "fail"

C25_SuccessClears ==
    [][ /\ OperationSucceeds => Cleared(errorCounts', circuitBreakers', retry.streamId)
        /\ retry.pc = "returned" =>
              Cleared(errorCounts', circuitBreakers', retry.streamId)
        /\ (/\ retry.calls = 1
            /\ Cleared(errorCounts, circuitBreakers, retry.streamId)
            /\ CatchStep) =>
               /\ decision'.action = FirstAnswer(decision'.type)
               /\ errorCounts'[retry.streamId] = 1
               /\ circuitBreakers'[retry.streamId].failureCount = 1
               /\ ~circuitBreakers'[retry.streamId].isOpen ]_vars

\* the last failure of the key was answered by its open breaker; a later call
\* of withRetry succeeded at once and the records of the key are gone
C25_Witness ==
    /\ retry.pc = "returned"
    /\ retry.attempt = 0
    /\ decision.action = "circuit_break"
    /\ decision.type = "authentication"
    /\ now >= circuitBreakerTimeout
    /\ Cleared(errorCounts, circuitBreakers, retry.streamId)

(***************************************************************************)
(* C26. Whenever a failed attempt inside withRetry is answered with        *)
(* reauthenticate, withRetry raises an authentication-required failure,    *)
(* not the classified failure, and does not invoke the operation again,    *)
(* on whichever attempt the failure occurs.                                *)
(***************************************************************************)
C26_ReauthenticateIsRaised ==
    [][ (CatchStep /\ decision'.action = "reauthenticate") =>
            /\ retry'.pc = "thrown"
            /\ retry'.raised = "AuthenticationRequired"
            /\ retry'.calls = retry.calls ]_vars

(***************************************************************************)
(* C27. withRetry invokes the operation again only after a failure         *)
(* classified network, timeout, server_error or rate_limit; after a        *)
(* failure classified authentication, abort or unknown it raises and the   *)
(* operation is not invoked again, whatever the history of the key.        *)
(***************************************************************************)
C27_OnlyRetryableIsRetried ==
    [][ CatchStep =>
            /\ retry'.pc = "sleeping" => isRetryable(retry'.failed)
            /\ retry'.failed \in { "authentication", "abort", "unknown" } =>
                  retry'.pc = "thrown" /\ retry'.calls = retry.calls ]_vars


(***************************************************************************)
(* Two sessions side by side                                               *)
(***************************************************************************)
\* action is one of the four actions that name an entry, names id and
\* does not name other
KeyedBy(action, id, other) ==
    \/ /\ action.type \in { "UPDATE_STREAMING_CONTENT", "COMPLETE_STREAMING",
                            "STOP_STREAMING" }
       /\ action.messageId = id
    \/ /\ action.type = "REMOVE_STREAMING_MESSAGES"
       /\ id \in action.messageIds
       /\ other \notin action.messageIds

\* the session of id is active: registered, with an entry still live
ActiveSession(st, id) == Registered(st, id) /\ Live(st, id)

\* C28: with two distinct active sessions A and B, an action that names A's
\* id (update content, complete, stop, remove), dispatched in any order with
\* the others, leaves B's transcript entry (content, isComplete, canStop and
\* every other field) and B's record in the registry as they were.
C28_SessionsAreIsolated ==
    [][\A a \in Chat, b \in Chat :
          ( /\ a # b
            /\ ActiveSession(state, MsgId(a))
            /\ ActiveSession(state, MsgId(b))
            /\ KeyedBy(dispatched', MsgId(a), MsgId(b))
            /\ state' = appReducer(state, dispatched') )
          => /\ HasEntry(state', MsgId(b))
             /\ Cardinality(Entries(state', MsgId(b))) = 1
             /\ Entry(state', MsgId(b)) = Entry(state, MsgId(b))
             /\ Registered(state', MsgId(b))
             /\ state'.activeStreams[MsgId(b)] = state.activeStreams[MsgId(b)]
      ]_vars

\* A has just been stopped while B, active beside it, is still streaming
C28_Witness ==
    \E a \in Chat, b \in Chat :
        /\ a # b
        /\ dispatched.type = "STOP_STREAMING"
        /\ dispatched.messageId = MsgId(a)
        /\ HasEntry(state, MsgId(a))
        /\ Entry(state, MsgId(a)).isComplete
        /\ EndsWith(Entry(state, MsgId(a)).content, StoppedByUser)
        /\ ~Registered(state, MsgId(a))
        /\ ActiveSession(state, MsgId(b))
        /\ Entry(state, MsgId(b)).canStop


(***************************************************************************)
(* Classification as an ordered list of rules                              *)
(***************************************************************************)
\* a rule gives its kind to a failure that shows one marker of `any` and,
\* when `with` is not empty, one marker of `with` too; `names` are the
\* whole names that match by themselves
Rule(kind, any, with, names) ==
    [ kind |-> kind, any |-> any, with |-> with, names |-> names ]

\* the rules in the order of the tests
Rules ==
    << Rule("abort", { "abort" }, { }, { "aborterror" }),
       Rule("timeout", { "timeout" }, { }, { "timeouterror" }),
       Rule("network", { "network", "fetch", "connection" }, { }, { }),
       Rule("authentication", { "401", "unauthorized", "forbidden" }, { }, { }),
       Rule("rate_limit", { "429", "rate limit", "too many" }, { }, { }),
       Rule("server_error", { "5" }, { "server", "internal" }, { }) >>

\* the rules without the "too many" marker
RulesAsListed ==
    [ Rules EXCEPT ![5] = Rule("rate_limit", { "429", "rate limit" }, { }, { }) ]

\* the marker is found in the message, or in the name when byName
Carries(error, marker, byName) ==
    \/ Includes(error.message, marker)
    \/ byName /\ marker \in MarkersIn(Lower(error.name))

Matches(error, rule, byName) ==
    \/ Lower(error.name) \in rule.names
    \/ /\ \E marker \in rule.any : Carries(error, marker, byName)
       /\ rule.with = { } \/ \E marker \in rule.with : Carries(error, marker, byName)

\* the kind of the first rule that matches, unknown when none does
FirstMatch(error, rules, byName) ==
    LET hits == { k \in 1 .. Len(rules) : Matches(error, rules[k], byName) }
    IN  IF hits = { } THEN "unknown"
        ELSE rules[CHOOSE k \in hits : \A j \in hits : k <= j].kind

\* categorizeError over the failures of the model
Classified == [ error \in Errors \cup MarkedErrors |-> categorizeError(error) ]

\* the first rule's kind over the same failures, with the markers as listed
\* and looked for in the name too, and with the rules of the tests
Listed == [ error \in Errors \cup MarkedErrors |-> FirstMatch(error, RulesAsListed, TRUE) ]
Ruled == [ error \in Errors \cup MarkedErrors |-> FirstMatch(error, Rules, FALSE) ]

\* C29 as stated: the failure is given the kind of the first marker found in
\* its name or its message, the markers being abort, timeout,
\* network/fetch/connection, 401/unauthorized/forbidden, 429/rate limit and
\* digit 5 with server/internal in that order, and unknown when it carries
\* none of them.
C29_FirstListedMarker ==
    [][\A error \in Errors \cup MarkedErrors, streamId \in StreamKeys :
          ( /\ decision'.action # "none"
            /\ decision'.type = Classified[error]
            /\ decision'.streamId = streamId
            /\ HandleStreamError(error, streamId) )
          => decision'.type = Listed[error]]_vars

\* C29: the failure is given the kind of the first rule that matches, in the
\* order abort, timeout, network, authentication, rate_limit, server_error:
\* the markers are looked for in the lower-cased message only, "too many" is
\* a rate_limit marker beside 429 and rate limit, and the name counts only
\* when it is aborterror or timeouterror as a whole; unknown otherwise.
C29_FirstMatchingRule ==
    [][\A error \in Errors \cup MarkedErrors, streamId \in StreamKeys :
          ( /\ decision'.action # "none"
            /\ decision'.type = Classified[error]
            /\ decision'.streamId = streamId
            /\ HandleStreamError(error, streamId) )
          => decision'.type = Ruled[error]]_vars

\* every kind has been given, and a failure with the markers of two rules
\* has been given the kind of the earlier one
C29_Witness ==
    /\ decision.action # "none"
    /\ decision.type = "timeout"
    /\ decision.type = categorizeError(NetworkTimeout)
    /\ Includes(NetworkTimeout.message, "network")
    /\ categorizeError(TooManyRequests) = "rate_limit"
    /\ categorizeError(NamedNetworkError) = "unknown"
    /\ { categorizeError(error) : error \in Errors \cup MarkedErrors }
          = { "abort", "timeout", "network", "authentication", "rate_limit",
              "server_error", "unknown" }


(***************************************************************************)
(* A failed connection initialisation                                      *)
(***************************************************************************)
\* this step issues a handshake
Issues == \E j \in Inits : initPc[j] = "idle" /\ initPc'[j] # "idle"

\* the sign-in the provider holds
SignIn(deps) == << deps.isAuthenticated, deps.token >>

\* C30: when the session-init call fails, initializeChat appends a completed
\* error entry with the failure's message, sets ConnectionStatus to error
\* and leaves isInitialized as it was (false unless another call has
\* succeeded); the step issues no handshake and changes none of the effect's
\* dependencies, and once a call has failed a handshake is issued only
\* after the sign-in has changed.  A failed health probe only moves the call
\* on to the session-init request: no error entry, no change of status.
C30_InitFailureSurfaces ==
    [][ /\ \A j \in Inits :
              InitFails(j, HttpErrorMessage)
              => /\ Cardinality(Entries(state', ErrorId(j))) = 1
                 /\ Entry(state', ErrorId(j)).isComplete
                 /\ ~Entry(state', ErrorId(j)).canStop
                 /\ Entry(state', ErrorId(j)).content = FailedToConnect(HttpErrorMessage)
                 /\ state'.chatHistory[Len(state'.chatHistory)].id = ErrorId(j)
                 /\ state'.connectionStatus = "error"
                 /\ state'.isInitialized = state.isInitialized
                 /\ (\A k \in Inits : initPc[k] # "done") => ~state'.isInitialized
                 /\ ~Issues
                 /\ Deps(state') = Deps(state)
        /\ ((\E k \in Inits : initPc[k] = "failed") /\ Issues)
              => SignIn(state) # SignIn(effectDeps)
        /\ \A j \in Inits :
              HealthSettles(j, FALSE)
              => /\ initPc'[j] = "init"
                 /\ ~HasEntry(state', ErrorId(j))
                 /\ state'.connectionStatus = state.connectionStatus
                 /\ state'.isInitialized = state.isInitialized
                 /\ Registered(state', ConnectionId(j))
      ]_vars

\* the only call has failed and nothing is left to run: the error entry is
\* there, the status is error, the effect has seen the present dependencies
\* and a further call would still be within the bounds
C30_Witness ==
    /\ initPc[1] = "failed"
    /\ initPc[2] = "idle"
    /\ Started < MaxCalls
    /\ HasEntry(state, ErrorId(1))
    /\ Entry(state, ErrorId(1)).isComplete
    /\ state.connectionStatus = "error"
    /\ ~state.isInitialized
    /\ ShouldInitialize(state)
    /\ effectDeps = Deps(state)


(***************************************************************************)
(* C31. A block tagged error, with a payload other than the heartbeat,     *)
(* yields exactly one error event, carrying the payload's message, and the *)
(* sequence fails on the next pull: no second event comes between the      *)
(* error event and the failure.                                            *)
(***************************************************************************)
C31_MessageOf(data) ==
    LET errorData == JsonParse(data)
    IN  IF errorData.ok /\ ~errorData.isNull
        THEN OrElse(Field(errorData.value, "message"), ChatStreamError)
        ELSE ChatStreamError

C31_ErrorThenFailure ==
    [][ \A k \in 1 .. Len(StepBlocks) :
          ( /\ EventTypeOf(StepBlocks[k]) = << "error" >>
            /\ DataOf(StepBlocks[k]) \notin { KeepAlive, << >> }
            /\ Reached(StepBlocks, k) )
          => /\ dpc' = "failed"
             /\ events' = events \o ProcessBlocks(SubSeq(StepBlocks, 1, k - 1)).events
                                 \o << ErrorEvent(C31_MessageOf(DataOf(StepBlocks[k]))) >>
      ]_vars


(***************************************************************************)
(* C32. Once a chatStream attempt has finished, on whatever path, its      *)
(* timeout timer is cleared and its reader released: no armed timer        *)
(* outlives its attempt.                                                   *)
(***************************************************************************)
C32_NothingOutlivesAttempt ==
    \A i \in Chat : gen[i] = "closed" => (~timeoutId[i] /\ ~readerLocked[i])


(***************************************************************************)
(* C33. Every streaming entry that startStream creates ends complete,      *)
(* stopped or removed once its stream has ended, by a terminal event, a    *)
(* failure or the timeout: no entry is left with isComplete false and      *)
(* canStop true after its call is over, a call that ended through an error *)
(* included.                                                               *)
(***************************************************************************)
C33_EntriesTerminate ==
    /\ [](\A i \in Chat :
            pc[i] = "done" =>
                ~(Live(state, MsgId(i)) /\ Entry(state, MsgId(i)).canStop))
    /\ \A i \in Chat : (pc[i] = "streaming") ~> ~Live(state, MsgId(i))


(***************************************************************************)
(* C34. Classification is stable under re-wrapping: the kind that          *)
(* handleStreamError finds in the StreamError that withRetry hands it, and *)
(* decides on, is the kind that StreamError carries in its type field,     *)
(* for failures recognised by their name too.                              *)
(***************************************************************************)
C34_RewrappingKeepsKind ==
    [][ CatchStep =>
            /\ decision'.type = retry'.failed
            /\ \A error \in RetryErrors :
                  categorizeError(error) = retry'.failed =>
                      categorizeError(createStreamError(error)) = categorizeError(error)
      ]_vars


(***************************************************************************)
(* C35. Whenever no startStream call is under way (stopStream and          *)
(* stopAllStreams run in one turn), the ids of the session manager's map   *)
(* of cancellation handles are the ids of the thinking and response        *)
(* sessions in the reducer's registry.                                     *)
(***************************************************************************)
C35_HandlesMatchRegistry ==
    (\A i \in Chat : pc[i] \in { "idle", "done" })
    => activeStreamsRef =
          { id \in DOMAIN state.activeStreams :
              state.activeStreams[id] \in { "thinking", "response" } }


(***************************************************************************)
(* C36. In every state of the reducer streaming.canStop is true exactly    *)
(* when the registry of active sessions is not empty, and the registry     *)
(* holds at most one session per entry id: registering an id that is       *)
(* registered replaces its session, it does not add one.                   *)
(***************************************************************************)
C36_CanStopIffRegistered ==
    /\ [](state.canStop = (DOMAIN state.activeStreams # {}))
    /\ [][ dispatched'.type = "START_STREAMING" =>
              /\ DOMAIN state'.activeStreams
                    = DOMAIN state.activeStreams \cup { dispatched'.messageId }
              /\ state'.activeStreams[dispatched'.messageId] = dispatched'.streamingType
              /\ Cardinality(DOMAIN state'.activeStreams)
                    = Cardinality(DOMAIN state.activeStreams)
                        + (IF Registered(state, dispatched'.messageId) THEN 0 ELSE 1)
         ]_vars

\* two sessions were registered, one of them twice, and one has completed:
\* the flag is still up for the other
C36_Witness ==
    \E a \in Chat, b \in Chat :
        /\ a # b
        /\ DOMAIN state.activeStreams = { MsgId(b) }
        /\ state.canStop
        /\ HasEntry(state, MsgId(a))
        /\ Entry(state, MsgId(a)).isComplete
        /\ dispatched.type = "COMPLETE_STREAMING"
        /\ dispatched.messageId = MsgId(a)


(***************************************************************************)
(* C37. While a session is streaming and its entry is in the transcript,   *)
(* the entry's partialContent is the concatenation, in the order of        *)
(* arrival, of the texts of the text events consumed so far; dispatching   *)
(* the accumulated string once more changes nothing, and until the entry   *)
(* is finalised its content only grows at the end.                         *)
(***************************************************************************)
StartsWith(s, prefix) == Len(s) >= Len(prefix) /\ SubSeq(s, 1, Len(prefix)) = prefix

C37_Streaming(st, i) == pc[i] = "streaming" /\ Live(st, MsgId(i))

C37_ContentIsWhatArrived ==
    /\ [](\A i \in Chat :
            C37_Streaming(state, i) =>
                /\ Entry(state, MsgId(i)).partialContent = Concat(received[i])
                /\ fullContent[i] = Concat(received[i])
                /\ UPDATE_STREAMING_CONTENT(state, MsgId(i), fullContent[i]) = state)
    /\ [][ \A i \in Chat :
              (C37_Streaming(state, i) /\ Live(state', MsgId(i))) =>
                  /\ StartsWith(Entry(state', MsgId(i)).partialContent,
                                Entry(state, MsgId(i)).partialContent)
                  /\ StartsWith(Entry(state', MsgId(i)).content,
                                Entry(state, MsgId(i)).content) ]_vars

\* two text events have been consumed and the entry holds both, in order
C37_Witness ==
    \E i \in Chat :
        /\ pc[i] = "streaming"
        /\ updates[i] = 2
        /\ received[i] = << << "b" >>, << "a" >> >>
        /\ Live(state, MsgId(i))
        /\ Entry(state, MsgId(i)).partialContent = << "b", "a" >>


(***************************************************************************)
(* C38. The delayed reset that follows a failed stream never overrides the *)
(* status of a later stream: when the delay expires while a stream started *)
(* after the failure is still registered and the status is streaming, the  *)
(* status stays streaming.                                                 *)
(***************************************************************************)
C38_StillActive(i) ==
    /\ pc[i] = "streaming"
    /\ ~aborted[i]
    /\ MsgId(i) \in activeStreamsRef
    /\ Live(state, MsgId(i))

C38_ResetKeepsLaterStatus ==
    [][ ( /\ resetTimers' = resetTimers - 1
          /\ state.connectionStatus = "streaming"
          /\ \E i \in Chat : C38_StillActive(i) )
        => state'.connectionStatus = "streaming" ]_vars


(***************************************************************************)
(* C39. withRetry terminates: one call invokes the operation at most       *)
(* maxRetries + 1 = 4 times, a catch block that is answered with fail,     *)
(* circuit_break, fallback or reauthenticate raises without invoking the   *)
(* operation again, and every call that is awaiting its operation ends by  *)
(* returning or raising.                                                   *)
(***************************************************************************)
TerminalActions == { "fail", "circuit_break", "fallback", "reauthenticate" }

C39_WithRetryTerminates ==
    /\ [](retry.calls <= maxRetries + 1 /\ retry.attempt <= maxRetries)
    /\ [][ (CatchStep /\ decision'.action \in TerminalActions) =>
              /\ retry'.pc = "thrown"
              /\ retry'.raised # "none"
              /\ retry'.calls = retry.calls ]_vars
    /\ [][ (retry.pc \in { "returned", "thrown" } /\ retry'.calls # retry.calls) =>
              (retry'.calls = 1 /\ retry'.attempt = 0) ]_vars
    /\ (retry.pc = "awaiting") ~> (retry.pc \in { "returned", "thrown" })

\* the fourth invocation has failed with an answer that would retry, and the call raised
C39_Witness ==
    /\ retry.pc = "thrown"
    /\ retry.calls = maxRetries + 1
    /\ decision.action \in { "retry", "backoff" }


(***************************************************************************)
(* C40. A block with no blank line after it when the transport ends is     *)
(* never emitted: the end of the body yields nothing, leaves the residue   *)
(* in the buffer and ends the sequence successfully, and at every moment   *)
(* the events yielded are those of the blank-line-terminated blocks        *)
(* delivered so far.                                                       *)
(***************************************************************************)
C40_Consumed == SubSeq(input, 1, Len(input) - Len(rest))

C40_TerminatedBlocks(s) ==
    LET parts == Split(s, << NL, NL >>)
    IN  SubSeq(parts, 1, Len(parts) - 1)

C40_Residue(s) ==
    LET parts == Split(s, << NL, NL >>)
    IN  parts[Len(parts)]

C40_ResidueIsDiscarded ==
    /\ [](events = ProcessBlocks(C40_TerminatedBlocks(C40_Consumed)).events)
    /\ [](dpc = "ended" =>
            /\ rest = << >>
            /\ buffer = C40_Residue(input)
            /\ ProcessBlocks(C40_TerminatedBlocks(input)).outcome = "continue")
    /\ [][ (dpc = "reading" /\ rest = << >> /\ dpc' # dpc) =>
              (dpc' = "ended" /\ events' = events /\ buffer' = buffer) ]_vars
    /\ [][ dpc = "ended" => (dpc' = "ended" /\ events' = events) ]_vars

\* the body ended inside a status block: only the text block before it was emitted
C40_Witness ==
    /\ dpc = "ended"
    /\ input = Body(<< Tagged("text", TextA), Tagged("status", StatusS) >>, FALSE)
    /\ buffer = Tagged("status", StatusS)
    /\ events = << TextEvent(<< "a" >>) >>

====
